---- MODULE Spec2Model ----
(***************************************************************************)
(* State-machine model of extract_xml.py: the MS-NRBF reader (NrbfReader), *)
(* its reference resolver, and the per-file driver (process).              *)
(*                                                                         *)
(* Conventions.                                                            *)
(*  - A byte buffer is a sequence of integers 0..255; the cursor `pos` is  *)
(*    the 0-based offset of io.BytesIO (`s.tell()`).                       *)
(*  - A Python str is the sequence of its code points.                     *)
(*  - A Python dict is a sequence of [key, val] items in insertion order   *)
(*    with unique keys (assignment to an existing key keeps its place).    *)
(*  - A Python value is a record tagged by field `k`; each kind keeps its  *)
(*    payload under a field name of its own.                               *)
(*  - A low-level read returns [e, v, p]: e = "" on success or the name of *)
(*    the exception raised, v the value read, p the cursor afterwards.     *)
(***************************************************************************)
EXTENDS Integers, Sequences, FiniteSets, TLC

VARIABLES
    data,            \* process: the bytes of the file (NrbfReader.s buffer)
    pos,             \* NrbfReader.s cursor
    classes,         \* NrbfReader.classes : dict object_id -> class layout
    objects,         \* NrbfReader.objects : dict object_id -> value
    libraries,       \* NrbfReader.libraries : dict lib_id -> name
    found_xml,       \* NrbfReader.found_xml
    stack,           \* active read_class_values / array loops, innermost last
    pc,              \* control point of run / process ("done": process is
                     \* over, by its return or by the exception of a write)
    err,             \* exception in flight or reported ("" when none)
    xml,             \* process: local `xml`
    fallback,        \* process: TRUE once the compressed scan was invoked
    output,          \* process: the file it opens for writing and the text
                     \* it passes to f.write, or NoOutput
    paths,           \* main: the paths given, each with its file's content
    nth,             \* main: the number of paths taken from `paths` so far
    outdir,          \* the files of OUT_DIR and the bytes they hold, in the
                     \* order of their creation
    mainpc,          \* main: control point ("crashed": left by an exception)
    interp           \* the interpreter and its platform: the calls of
                     \* primitive() and of read_extra() it has run, the
                     \* struct formats it has compiled, and os.linesep

vars == <<data, pos, classes, objects, libraries, found_xml, stack, pc, err,
          xml, fallback, output, paths, nth, outdir, mainpc, interp>>

-----------------------------------------------------------------------------
(* Program constants *)

\* "<ComplianceXML>k__BackingField"
TARGET_FIELD == <<60, 67, 111, 109, 112, 108, 105, 97, 110, 99, 101, 88, 77, 76, 62,
                  107, 95, 95, 66, 97, 99, 107, 105, 110, 103, 70, 105, 101, 108, 100>>

\* "__class__", the key read_class_values puts first in every object dict
CLASS_KEY == <<95, 95, 99, 108, 97, 115, 115, 95, 95>>

\* len(...) > 100 : the plausibility threshold of a captured text
Threshold == 100

\* self.s.read(12) : reserved bytes of the header record after the root id
HeaderReserved == 12

\* U+FFFD, what decode(errors='replace') puts for undecodable bytes
Replacement == 65533

-----------------------------------------------------------------------------
(* Python values *)

None == [k |-> "None"]
Str(s) == [k |-> "str", s |-> s]
Bool(b) == [k |-> "bool", b |-> b]
IntVal(n) == [k |-> "int", n |-> n]
\* a number whose value does not fit TLC's integers: kept as its
\* type code and little-endian bytes, which determine it
Num(tc, raw) == [k |-> "num", tc |-> tc, raw |-> raw]
Bytes(raw) == [k |-> "bytes", raw |-> raw]
List(elems) == [k |-> "list", elems |-> elems]
Ref(id) == [k |-> "Ref", ref |-> id]
HeaderVal(root) == [k |-> "Header", root |-> root]
END == [k |-> "END"]
Dict(items) == [k |-> "dict", items |-> items]

IsStr(v) == v.k = "str"
\* isinstance(v, list): an array's elements, or the [None] * n of a null run
IsList(v) == v.k \in {"list", "nulls"}
IsDict(v) == v.k = "dict"
IsRef(v) == v.k = "Ref"

\* [None] * n  (n <= 0 gives the empty list): a list of which only the length
\* is ever used, kept as that length
NoneList(n) == [k |-> "nulls", len |-> IF n > 0 THEN n ELSE 0]

\* len(v) of a list
ListLen(v) == IF v.k = "nulls" THEN v.len ELSE Len(v.elems)

Min(a, b) == IF a < b THEN a ELSE b

-----------------------------------------------------------------------------
(* Python dict, as an insertion-ordered sequence of items *)

DictHas(d, key) == \E i \in 1..Len(d) : d[i].key = key

DictGet(d, key) == d[CHOOSE i \in 1..Len(d) : d[i].key = key].val

\* d[key] = val
DictSet(d, key, val) ==
    IF DictHas(d, key)
    THEN [i \in 1..Len(d) |-> IF d[i].key = key THEN [key |-> key, val |-> val] ELSE d[i]]
    ELSE Append(d, [key |-> key, val |-> val])

\* d.get(key)
DictGetOrNone(d, key) == IF DictHas(d, key) THEN DictGet(d, key) ELSE None

-----------------------------------------------------------------------------
(* bytes.decode('utf-8', errors='replace') *)

IsCont(b) == b >= 128 /\ b <= 191

\* the range the second byte of a multi-byte sequence led by b0 must lie in
SecondOk(b0, b1) ==
    CASE b0 = 224 -> b1 >= 160 /\ b1 <= 191
      [] b0 = 237 -> b1 >= 128 /\ b1 <= 159
      [] b0 = 240 -> b1 >= 144 /\ b1 <= 191
      [] b0 = 244 -> b1 >= 128 /\ b1 <= 143
      [] OTHER -> IsCont(b1)

\* number of bytes of the sequence a lead byte announces (0: not a lead byte)
SeqLen(b0) ==
    CASE b0 < 128 -> 1
      [] b0 >= 194 /\ b0 <= 223 -> 2
      [] b0 >= 224 /\ b0 <= 239 -> 3
      [] b0 >= 240 /\ b0 <= 244 -> 4
      [] OTHER -> 0

\* decodes the sequence starting at bs[i]: [cp, n] = code point and bytes used.
\* An ill-formed sequence gives U+FFFD for its maximal valid prefix.
DecodeOne(bs, i) ==
    LET b0 == bs[i]
        need == SeqLen(b0)
        has(j) == i + j <= Len(bs)
    IN  CASE need = 1 -> [cp |-> b0, n |-> 1]
          [] need = 0 -> [cp |-> Replacement, n |-> 1]
          [] need = 2 ->
               IF has(1) /\ IsCont(bs[i+1])
               THEN [cp |-> (b0 - 192) * 64 + (bs[i+1] - 128), n |-> 2]
               ELSE [cp |-> Replacement, n |-> 1]
          [] need = 3 ->
               IF ~(has(1) /\ SecondOk(b0, bs[i+1])) THEN [cp |-> Replacement, n |-> 1]
               ELSE IF ~(has(2) /\ IsCont(bs[i+2])) THEN [cp |-> Replacement, n |-> 2]
               ELSE [cp |-> (b0 - 224) * 4096 + (bs[i+1] - 128) * 64 + (bs[i+2] - 128),
                     n |-> 3]
          [] OTHER ->
               IF ~(has(1) /\ SecondOk(b0, bs[i+1])) THEN [cp |-> Replacement, n |-> 1]
               ELSE IF ~(has(2) /\ IsCont(bs[i+2])) THEN [cp |-> Replacement, n |-> 2]
               ELSE IF ~(has(3) /\ IsCont(bs[i+3])) THEN [cp |-> Replacement, n |-> 3]
               ELSE [cp |-> (b0 - 240) * 262144 + (bs[i+1] - 128) * 4096
                            + (bs[i+2] - 128) * 64 + (bs[i+3] - 128),
                     n |-> 4]

\* bs[i] is taken by the sequence led by the nearest earlier byte that is not
\* a continuation byte (a sequence takes at most 3 bytes after its lead)
Consumed(bs, i) ==
    \E d \in 1..3 :
        /\ i - d >= 1
        /\ ~IsCont(bs[i - d])
        /\ \A m \in 1..(d - 1) : IsCont(bs[i - m])
        /\ DecodeOne(bs, i - d).n > d

\* the decoder starts a sequence at bs[i]
IsStart(bs, i) == ~IsCont(bs[i]) \/ ~Consumed(bs, i)

\* the code points decoded from the sequences that start in bs[lo..hi]
RECURSIVE Utf8Range(_, _, _)
Utf8Range(bs, lo, hi) ==
    IF lo > hi THEN <<>>
    ELSE IF lo = hi THEN (IF IsStart(bs, lo) THEN <<DecodeOne(bs, lo).cp>> ELSE <<>>)
    ELSE Utf8Range(bs, lo, (lo + hi) \div 2) \o Utf8Range(bs, (lo + hi) \div 2 + 1, hi)

Utf8Decode(bs) == Utf8Range(bs, 1, Len(bs))

\* the UTF-8 sequence of a code point that is no surrogate
Utf8Char(cp) ==
    IF cp < 128 THEN <<cp>>
    ELSE IF cp < 2048 THEN <<192 + cp \div 64, 128 + (cp % 64)>>
    ELSE IF cp < 65536
    THEN <<224 + cp \div 4096, 128 + ((cp \div 64) % 64), 128 + (cp % 64)>>
    ELSE <<240 + cp \div 262144, 128 + ((cp \div 4096) % 64), 128 + ((cp \div 64) % 64),
           128 + (cp % 64)>>

\* the bytes a file opened with open(path, 'w', encoding='utf-8') gets for the
\* characters lo..hi of text: the text mode writes the line separator of the
\* platform, sep, for every '\n', and the UTF-8 sequence of any other
\* character
RECURSIVE FileRange(_, _, _, _)
FileRange(text, sep, lo, hi) ==
    IF lo > hi THEN <<>>
    ELSE IF lo = hi THEN (IF text[lo] = 10 THEN sep ELSE Utf8Char(text[lo]))
    ELSE FileRange(text, sep, lo, (lo + hi) \div 2)
         \o FileRange(text, sep, (lo + hi) \div 2 + 1, hi)

FileBytes(text, sep) == FileRange(text, sep, 1, Len(text))

\* os.linesep: "\n", or "\r\n" on Windows
LineSeps == {<<10>>, <<13, 10>>}

-----------------------------------------------------------------------------
(* Low-level reads of NrbfReader.  `buf` is the buffer, `p` the cursor.    *)

Ok(v, p) == [e |-> "", v |-> v, p |-> p]
Fail(e, p) == [e |-> e, v |-> None, p |-> p]

\* the rest of a read when r succeeded, r's failure otherwise
Then(r, F(_)) == IF r.e # "" THEN Fail(r.e, r.p) ELSE F(r)

\* a value under a name: x is what F works with
With(x, F(_)) == F(x)

\* self.s.read(n): at most n bytes, fewer at the end of the buffer, never an
\* error; a negative n reads everything that is left
ReadBytes(buf, p, n) ==
    IF n < 0 \/ n > Len(buf) - p THEN Ok(SubSeq(buf, p + 1, Len(buf)), Len(buf))
    ELSE Ok(SubSeq(buf, p + 1, p + n), p + n)

\* a byte() that looks at the next byte and leaves the cursor before it
ReadBytePeek(buf, p) ==
    IF p < Len(buf) THEN Ok(buf[p + 1], p) ELSE Fail("EOFError", p)

\* byte(): EOFError when nothing is left
ReadByte(buf, p) ==
    IF p < Len(buf) THEN Ok(buf[p + 1], p + 1) ELSE Fail("EOFError", p)

\* little-endian two's complement of 4 bytes
LeInt32(raw) ==
    raw[1] + raw[2] * 256 + raw[3] * 65536
    + (IF raw[4] >= 128 THEN raw[4] - 256 ELSE raw[4]) * 16777216

\* struct.unpack('<i', raw)[0]; struct.error unless raw has 4 bytes
UnpackInt32(r) == IF Len(r.v) = 4 THEN Ok(LeInt32(r.v), r.p) ELSE Fail("struct.error", r.p)

\* int32(): struct.unpack('<i', self.s.read(4))
ReadInt32(buf, p) == UnpackInt32(ReadBytes(buf, p, 4))

\* varint(): 7 bits per byte, at most 5 bytes
RECURSIVE VarintLoop(_, _, _, _, _)
VarintLoop(buf, p, i, r, mult) ==
    IF i = 5 THEN Ok(r, p)
    ELSE Then(ReadByte(buf, p), LAMBDA b :
            IF b.v < 128 THEN Ok(r + (b.v % 128) * mult, b.p)
            ELSE VarintLoop(buf, b.p, i + 1, r + (b.v % 128) * mult, mult * 128))

ReadVarint(buf, p) == VarintLoop(buf, p, 0, 0, 1)

\* the bytes of a string taken one character each, undecoded
DecodedBytewise(r) == Ok(r.v, r.p)

\* the str of the bytes a read returned
Decoded(r) == Ok(Utf8Decode(r.v), r.p)

\* lps(): length-prefixed string; a short read gives a shorter string
ReadLps(buf, p) ==
    Then(ReadVarint(buf, p), LAMBDA n : Decoded(ReadBytes(buf, n.p, n.v)))

\* the `sizes` table of primitive(): type code -> width in bytes (0: absent)
Sizes(tc) ==
    CASE tc \in {1, 2, 10} -> 1
      [] tc \in {3, 7, 14} -> 2
      [] tc \in {8, 11, 15} -> 4
      [] tc \in {6, 9, 12, 13, 16} -> 8
      [] OTHER -> 0

\* sizes.get(tc, 4) of binary_array / single_array
SizeOrDefault(tc) == IF Sizes(tc) = 0 THEN 4 ELSE Sizes(tc)

\* the value primitive() makes of the `raw` bytes of a fixed-width type code
PrimValue(tc, raw) ==
    CASE tc = 1 -> Bool(raw[1] # 0)
      [] tc = 2 -> IntVal(raw[1])
      [] tc = 3 -> IntVal(raw[1] + raw[2] * 256)
      [] tc = 7 -> IntVal(raw[1] + (IF raw[2] >= 128 THEN raw[2] - 256 ELSE raw[2]) * 256)
      [] tc = 8 -> IntVal(LeInt32(raw))
      [] tc = 10 -> IntVal(IF raw[1] >= 128 THEN raw[1] - 256 ELSE raw[1])
      [] tc = 14 -> IntVal(raw[1] + raw[2] * 256)
      [] OTHER -> Num(tc, raw)

\* the value of a fixed-width read r of type code tc: a short read raises
\* IndexError where the code indexes `raw` (codes 1, 2, 3) and struct.error
\* where it unpacks it
Unpacked(tc, r) ==
    IF Len(r.v) = Sizes(tc) THEN Ok(PrimValue(tc, r.v), r.p)
    ELSE IF tc \in {1, 2, 3} THEN Fail("IndexError", r.p)
    ELSE Fail("struct.error", r.p)

\* primitive(tc)
ReadPrimitive(buf, p, tc) ==
    IF tc \in {5, 18} THEN Then(ReadLps(buf, p), LAMBDA s : Ok(Str(s.v), s.p))
    ELSE IF Sizes(tc) # 0 THEN Unpacked(tc, ReadBytes(buf, p, Sizes(tc)))
    ELSE Ok(None, p)

\* read_extra(bt): the extra info of a member type
ReadExtra(buf, p, bt) ==
    CASE bt = 0 -> Then(ReadByte(buf, p), LAMBDA b : Ok([t |-> "Prim", tc |-> b.v], b.p))
      [] bt = 1 -> Ok([t |-> "String"], p)
      [] bt = 2 -> Ok([t |-> "Object"], p)
      [] bt = 3 -> Then(ReadLps(buf, p), LAMBDA s : Ok([t |-> "SysClass", name |-> s.v], s.p))
      [] bt = 4 -> Then(ReadLps(buf, p), LAMBDA s :
                   Then(ReadInt32(buf, s.p), LAMBDA l :
                   Ok([t |-> "Class", name |-> s.v, lib |-> l.v], l.p)))
      [] bt = 5 -> Ok([t |-> "ObjArr"], p)
      [] bt = 6 -> Ok([t |-> "StrArr"], p)
      [] bt = 7 -> Then(ReadByte(buf, p), LAMBDA b : Ok([t |-> "PrimArr", tc |-> b.v], b.p))
      [] OTHER -> Ok([t |-> "Unk", bt |-> bt], p)

-----------------------------------------------------------------------------
(* The call stack.  Every call of a method of the reader is a frame of the *)
(* interpreter, and the interpreter raises RecursionError for a call that  *)
(* would make the stack deeper than its limit.  record() and the methods   *)
(* it calls are recursive (lines 110, 209, 252, 274): the depth grows with *)
(* the nesting of the records and with every library declaration.  The     *)
(* counts below are those of CPython 3.11, where a call of range or zip    *)
(* and a comparison of values that are not both exact ints count as one    *)
(* more level while they run.                                              *)

\* sys.getrecursionlimit() of the interpreter the program runs under
RecursionLimit == 1000

\* the frames up to the loop of run(): the module, main, process and run
RunDepth == 4

\* the depth of the frame whose loop is the innermost active one: the caller
\* of the record() that reads the next record
Depth == IF stack = <<>> THEN RunDepth ELSE stack[Len(stack)].depth

\* a read r at cursor p whose calls reach n levels above that frame
Deep(n, p, r) == IF Depth + n > RecursionLimit THEN Fail("RecursionError", p) ELSE r

\* line 40, `raise EOFError`: the statement makes the exception by calling
\* the class, one more level than the frame of byte(), which is the n-th
\* above the loop.  The errors of struct.unpack and of raw[0] are raised by
\* the interpreter itself and need no level.
RaiseAt(n, r) == IF r.e = "EOFError" THEN Deep(n + 1, r.p, r) ELSE r

\* byte(), int32() and lps() called from the frame n levels above the loop:
\* byte and int32 are one frame; lps is a frame, the frame of varint and the
\* call of range(5) in it (or the frame of byte)
ByteAt(n, buf, p) == Deep(n + 1, p, RaiseAt(n + 1, ReadByte(buf, p)))
Int32At(n, buf, p) == Deep(n + 1, p, ReadInt32(buf, p))
LpsAt(n, buf, p) == Deep(n + 3, p, RaiseAt(n + 3, ReadLps(buf, p)))

\* the calls of a method after which the interpreter runs it specialised:
\* until then its tests `bt == 0`, `tc == 5`, ... are generic comparisons,
\* one more level each while they run
WarmCalls == 7

\* the levels read_extra(bt) needs: its frame, and what it calls or, while
\* it is `cold`, the comparisons of lines 84-91
ExtraNeed(bt, cold) ==
    IF bt \in {0, 7} THEN 2 ELSE IF bt \in {3, 4} THEN 4 ELSE IF cold THEN 2 ELSE 1

\* read_extra(bt) called from the frame n levels above the loop
ExtraAt(n, buf, p, bt, cold) ==
    Deep(n + ExtraNeed(bt, cold), p,
         RaiseAt(n + ExtraNeed(bt, cold), ReadExtra(buf, p, bt)))

\* the type codes whose value primitive() makes with struct.unpack
Unpacks(tc) == Sizes(tc) # 0 /\ tc \notin {1, 2, 3}

\* the interpreter when main starts: primitive() and read_extra() have not
\* run, of the formats of primitive() none is compiled, and no file was
\* written yet (linesep <<>>: the platform's line separator has not shown)
NewInterp == [calls |-> 0, formats |-> {}, extras |-> 0, linesep |-> <<>>]

\* primitive() has not yet run WarmCalls times
Cold == interp.calls < WarmCalls

\* read_extra() has run k times: it is not specialised yet
ColdExtra(k) == k < WarmCalls

\* lines 69-79: the type code that stands for the struct format of tc ('<q'
\* is the format of the codes 9, 12 and 13)
Format(tc) == IF tc \in {12, 13} THEN 9 ELSE tc

\* struct.unpack has the format of tc compiled; '<i' is the format of
\* int32(), which has run before any record is nested
Cached(tc) == tc = 8 \/ Format(tc) \in interp.formats

\* primitive(tc) called from the frame n levels above the loop.  A string
\* code needs the frame and the levels of lps.  For the other codes the
\* levels depend on what the interpreter has run before: `cold` is one more
\* level from line 62 on, and a format that is not `cached` is compiled by
\* struct.unpack, one more level, after the bytes are read.
PrimitiveAt(n, buf, p, tc, cold, cached) ==
    IF tc \in {5, 18} THEN Deep(n + 4, p, RaiseAt(n + 4, ReadPrimitive(buf, p, tc)))
    ELSE Deep(n + 1 + (IF cold THEN 1 ELSE 0), p,
           IF Unpacks(tc) /\ tc # 8 /\ ~cached
           THEN Deep(n + 2 + (IF cold THEN 1 ELSE 0),
                     ReadBytes(buf, p, Sizes(tc)).p, ReadPrimitive(buf, p, tc))
           ELSE ReadPrimitive(buf, p, tc))

\* the interpreter after primitive(tc) was called from the frame n levels
\* above the loop: one more call, and the format of tc compiled when
\* struct.unpack was reached and had the level to compile it
Learnt(n, tc) ==
    [interp EXCEPT
       !.calls = IF Cold THEN interp.calls + 1 ELSE interp.calls,
       !.formats = IF Unpacks(tc) /\ tc # 8
                      /\ Depth + n + 2 + (IF Cold THEN 1 ELSE 0) <= RecursionLimit
                   THEN interp.formats \cup {Format(tc)} ELSE interp.formats]

\* the interpreter after `calls` more calls of read_extra()
LearntExtras(calls) ==
    [interp EXCEPT !.extras = IF @ + calls > WarmCalls THEN WarmCalls ELSE @ + calls]

-----------------------------------------------------------------------------
(* The comprehensions of class_record and binary_array: each is a frame of *)
(* its own, one level above the method (the 4th above the loop that asked  *)
(* for the record).                                                        *)

\* [self.lps() for _ in range(n)]
RECURSIVE ReadLpsList(_, _, _)
ReadLpsList(buf, p, n) ==
    IF n <= 0 THEN Ok(<<>>, p)
    ELSE Then(LpsAt(4, buf, p), LAMBDA s :
         Then(ReadLpsList(buf, s.p, n - 1), LAMBDA rest :
         Ok(<<s.v>> \o rest.v, rest.p)))

\* [self.byte() for _ in range(n)]
RECURSIVE ReadByteList(_, _, _)
ReadByteList(buf, p, n) ==
    IF n <= 0 THEN Ok(<<>>, p)
    ELSE Then(ByteAt(4, buf, p), LAMBDA b :
         Then(ReadByteList(buf, b.p, n - 1), LAMBDA rest :
         Ok(<<b.v>> \o rest.v, rest.p)))

\* [self.int32() for _ in range(n)]
RECURSIVE ReadInt32List(_, _, _)
ReadInt32List(buf, p, n) ==
    IF n <= 0 THEN Ok(<<>>, p)
    ELSE Then(Int32At(4, buf, p), LAMBDA x :
         Then(ReadInt32List(buf, x.p, n - 1), LAMBDA rest :
         Ok(<<x.v>> \o rest.v, rest.p)))

\* [self.read_extra(bt) for bt in btypes], read_extra() having run k times
RECURSIVE ReadExtraList(_, _, _, _)
ReadExtraList(buf, p, bts, k) ==
    IF bts = <<>> THEN Ok(<<>>, p)
    ELSE Then(ExtraAt(4, buf, p, Head(bts), ColdExtra(k)), LAMBDA x :
         Then(ReadExtraList(buf, x.p, Tail(bts), k + 1), LAMBDA rest :
         Ok(<<x.v>> \o rest.v, rest.p)))

\* the calls of read_extra() that comprehension makes: one for each member
\* type up to the first call that raises
RECURSIVE ExtraCalls(_, _, _, _)
ExtraCalls(buf, p, bts, k) ==
    IF bts = <<>> THEN 0
    ELSE With(ExtraAt(4, buf, p, Head(bts), ColdExtra(k)), LAMBDA x :
           IF x.e # "" THEN 1 ELSE 1 + ExtraCalls(buf, x.p, Tail(bts), k + 1))

-----------------------------------------------------------------------------
(* Record headers *)

\* class_record, lines 179-186: object id, class name, member names and
\* member types; the frame of class_record is the 3rd above the loop
\* (record, record_of_type, class_record)
ClassTypes(buf, p, with_types) ==
    Then(Int32At(3, buf, p), LAMBDA oid :
    Then(LpsAt(3, buf, oid.p), LAMBDA cname :
    Then(Int32At(3, buf, cname.p), LAMBDA n :
    Then(ReadLpsList(buf, n.p, n.v), LAMBDA fnames :
    Then(IF with_types THEN ReadByteList(buf, fnames.p, Len(fnames.v))
         ELSE Ok([i \in 1..Len(fnames.v) |-> 2], fnames.p), LAMBDA btypes :
    Ok([oid |-> oid.v, cname |-> cname.v, fnames |-> fnames.v,
        btypes |-> btypes.v], btypes.p))))))

\* lines 188-192: the extra info of the member types and the library id
ClassHeader(buf, p, with_types, sys) ==
    Then(ClassTypes(buf, p, with_types), LAMBDA t :
    Then(IF with_types THEN ReadExtraList(buf, t.p, t.v.btypes, interp.extras)
         ELSE Ok([i \in 1..Len(t.v.fnames) |-> [t |-> "Object"]], t.p), LAMBDA extras :
    Then(IF sys THEN Ok(0, extras.p) ELSE Int32At(3, buf, extras.p), LAMBDA lib :
    Ok([oid |-> t.v.oid, cname |-> t.v.cname, fnames |-> t.v.fnames,
        btypes |-> t.v.btypes, extras |-> extras.v], lib.p))))

\* the calls of read_extra() class_record makes for the record at p
ClassExtraCalls(buf, p, with_types) ==
    IF ~with_types THEN 0
    ELSE With(ClassTypes(buf, p, TRUE), LAMBDA t :
           IF t.e # "" THEN 0 ELSE ExtraCalls(buf, t.p, t.v.btypes, interp.extras))

-----
(* The integers of Python have no width: the product of the lengths of an  *)
(* array and the byte count made of it are kept exactly, as a sign and a   *)
(* magnitude in limbs of 15 bits, the least significant first.             *)

Limb == 32768
MaxInt32 == 2147483647

RECURSIVE Limbs(_)
Limbs(n) == IF n = 0 THEN <<>> ELSE <<n % Limb>> \o Limbs(n \div Limb)

\* the Python integer of an int32
BigInt(n) ==
    [neg |-> n < 0,
     mag |-> IF n >= 0 THEN Limbs(n)
             ELSE IF n = -MaxInt32 - 1 THEN <<0, 0, 2>> ELSE Limbs(-n)]

\* a * k + c for limbs k and c
RECURSIVE TimesLimb(_, _, _)
TimesLimb(a, k, c) ==
    IF a = <<>> THEN Limbs(c)
    ELSE With(Head(a) * k + c, LAMBDA t :
           <<t % Limb>> \o TimesLimb(Tail(a), k, t \div Limb))

\* a + b + c for a limb c
RECURSIVE Plus(_, _, _)
Plus(a, b, c) ==
    IF a = <<>> /\ b = <<>> THEN Limbs(c)
    ELSE With((IF a = <<>> THEN 0 ELSE Head(a)) + (IF b = <<>> THEN 0 ELSE Head(b)) + c,
              LAMBDA t : <<t % Limb>> \o Plus(IF a = <<>> THEN a ELSE Tail(a),
                                              IF b = <<>> THEN b ELSE Tail(b),
                                              t \div Limb))

RECURSIVE Times(_, _)
Times(a, b) ==
    IF b = <<>> THEN <<>>
    ELSE Plus(TimesLimb(a, Head(b), 0), <<0>> \o Times(a, Tail(b)), 0)

\* x * y
BigTimes(x, y) == [neg |-> x.neg # y.neg, mag |-> Times(x.mag, y.mag)]

\* |x| >= 2^63
Beyond63(m) == \E i \in DOMAIN m : m[i] # 0 /\ (i > 5 \/ (i = 5 /\ m[i] >= 8))

\* x does not fit the C type Py_ssize_t, -2^63 .. 2^63 - 1
Overflows(x) ==
    /\ Beyond63(x.mag)
    /\ ~(x.neg /\ \A i \in DOMAIN x.mag : x.mag[i] = (IF i = 5 THEN 8 ELSE 0))

\* x as a count of bytes to read or of slots to fill: x itself when it is
\* an int32, -2^31 included, and beyond that the int32 nearest to it, which
\* is more than any buffer or loop of the model holds
Count(x) ==
    IF \A i \in DOMAIN x.mag : x.mag[i] # 0 => (i <= 2 \/ (i = 3 /\ x.mag[i] < 2))
    THEN With((IF Len(x.mag) >= 1 THEN x.mag[1] ELSE 0)
              + (IF Len(x.mag) >= 2 THEN x.mag[2] * Limb ELSE 0)
              + (IF Len(x.mag) >= 3 THEN x.mag[3] * Limb * Limb ELSE 0),
              LAMBDA n : IF x.neg THEN -n ELSE n)
    ELSE IF x.neg THEN -MaxInt32 - 1 ELSE MaxInt32

\* total = 1; for l in lengths: total *= l
RECURSIVE Product(_)
Product(ls) ==
    IF ls = <<>> THEN BigInt(1) ELSE BigTimes(BigInt(Head(ls)), Product(Tail(ls)))

\* self.s.read(total * sz): BytesIO.read raises OverflowError for a count
\* that is no Py_ssize_t
ReadRun(buf, p, total, sz) ==
    IF Overflows(BigTimes(total, BigInt(sz))) THEN Fail("OverflowError", p)
    ELSE ReadBytes(buf, p, Count(BigTimes(total, BigInt(sz))))

\* binary_array, lines 226-231: the fields up to the element type; the
\* frame of binary_array is the 3rd above the loop
BinaryArrayTypes(buf, p) ==
    Then(Int32At(3, buf, p), LAMBDA oid :
    Then(ByteAt(3, buf, oid.p), LAMBDA atype :
    Then(Int32At(3, buf, atype.p), LAMBDA rank :
    Then(ReadInt32List(buf, rank.p, rank.v), LAMBDA lengths :
    Then(IF atype.v \in {3, 4, 5} THEN ReadInt32List(buf, lengths.p, rank.v)
         ELSE Ok(<<>>, lengths.p), LAMBDA lower :
    Then(ByteAt(3, buf, lower.p), LAMBDA bt :
    Ok([oid |-> oid.v, atype |-> atype.v, rank |-> rank.v, lengths |-> lengths.v,
        bt |-> bt.v], bt.p)))))))

\* lines 232-235: the extra info of the element type and the product of
\* the lengths
BinaryArrayHeader(buf, p) ==
    Then(BinaryArrayTypes(buf, p), LAMBDA t :
    Then(ExtraAt(3, buf, t.p, t.v.bt, ColdExtra(interp.extras)), LAMBDA ex :
    Ok([oid |-> t.v.oid, atype |-> t.v.atype, rank |-> t.v.rank,
        lengths |-> t.v.lengths, bt |-> t.v.bt, ex |-> ex.v,
        total |-> Product(t.v.lengths)], ex.p)))

\* single_array, lines 261-265: object id, length and, for tag 15, the type
\* code; the frame of single_array is the 3rd above the loop
SingleArrayHeader(buf, p, rt) ==
    Then(Int32At(3, buf, p), LAMBDA oid :
    Then(Int32At(3, buf, oid.p), LAMBDA length :
    Then(IF rt = 15 THEN ByteAt(3, buf, length.p) ELSE Ok(0, length.p), LAMBDA tc :
    Ok([oid |-> oid.v, length |-> length.v, tc |-> tc.v], tc.p))))

-----
(* resolve(val): follow Ref chains *)

\* one test of the while condition and, when it holds, one pass of the body;
\* st = [val, seen, done]
ResolveStep(objs, st) ==
    IF IsRef(st.val) /\ st.val.ref \notin st.seen
    THEN [val |-> DictGetOrNone(objs, st.val.ref),
          seen |-> st.seen \cup {st.val.ref},
          done |-> FALSE]
    ELSE [val |-> st.val, seen |-> st.seen, done |-> TRUE]

RECURSIVE ResolveLoop(_, _)
ResolveLoop(objs, st) ==
    IF st.done THEN st.val ELSE ResolveLoop(objs, ResolveStep(objs, st))

Resolve(objs, val) == ResolveLoop(objs, [val |-> val, seen |-> {}, done |-> FALSE])

\* isinstance(v, str) and len(v) > 100
Plausible(v) == IsStr(v) /\ Len(v.s) > Threshold

\* truth value of a found_xml / xml local: None or a str
Truthy(v) == IsStr(v) /\ Len(v.s) > 0

\* the scan of run (lines 304-309) and of process (lines 364-369): the resolved
\* target field of the first object, in table order, that gives a plausible
\* text; None when no object does
RECURSIVE ScanObjects(_, _)
ScanObjects(objs, i) ==
    IF i > Len(objs) THEN None
    ELSE IF IsDict(objs[i].val) /\ DictHas(objs[i].val.items, TARGET_FIELD)
            /\ Plausible(Resolve(objs, DictGet(objs[i].val.items, TARGET_FIELD)))
         THEN Resolve(objs, DictGet(objs[i].val.items, TARGET_FIELD))
         ELSE ScanObjects(objs, i + 1)

-----------------------------------------------------------------------------
(* The decoder as a state machine.  While pc = "decode" control is inside  *)
(* run(); `stack` holds the loops of read_class_values, binary_array and   *)
(* single_array that are active and the library declarations whose         *)
(* `return self.record()` (line 110) is open, so the control point is the  *)
(* loop head of the innermost loop, or the call of record() of the         *)
(* innermost library declaration, or the loop of run() when the stack is   *)
(* empty.  Each frame has the depth of its method in the call stack.       *)

Top == stack[Len(stack)]
Pop == SubSeq(stack, 1, Len(stack) - 1)

\* read_class_values entered from class_record: its frame is the 4th above
\* the loop that asked for the record (record, record_of_type, class_record,
\* read_class_values)
ClassFrame(h) ==
    [k |-> "class", oid |-> h.oid, cname |-> h.cname, fnames |-> h.fnames,
     btypes |-> h.btypes, extras |-> h.extras, i |-> 1, skip |-> 0, vals |-> <<>>,
     depth |-> Depth + 4]

\* binary_array / single_array: the 3rd frame above the loop that asked
ArrayFrame(oid, total) ==
    [k |-> "array", oid |-> oid, total |-> total, i |-> 1, skip |-> 0, elems |-> <<>>,
     depth |-> Depth + 3]

\* line 110: record_of_type calls record() for the record behind a library
\* declaration; its own frame is the 2nd above the loop that asked
LibFrame == [k |-> "lib", depth |-> Depth + 2]

InClass == pc = "decode" /\ stack # <<>> /\ Top.k = "class"
InArray == pc = "decode" /\ stack # <<>> /\ Top.k = "array"
InLib == pc = "decode" /\ stack # <<>> /\ Top.k = "lib"

\* the caller is at a call of self.record(): run's loop (line 295), a member
\* that is not an inline primitive (line 209), an array element (252, 274),
\* or the record behind a library declaration (line 110)
AtRecord ==
    /\ pc = "decode"
    /\ \/ stack = <<>>
       \/ InLib
       \/ InClass /\ Top.i <= Len(Top.fnames) /\ Top.skip <= 0 /\ Top.btypes[Top.i] # 0
       \/ InArray /\ Top.i <= Top.total /\ Top.skip <= 0

\* record(), line 96: the tag, read by byte() from the frame of record()
Tag == ByteAt(1, data, pos)
TagIs(rts) == AtRecord /\ Tag.e = "" /\ Tag.v \in rts

procVars == <<xml, fallback, output>>
mainVars == <<paths, nth, outdir, mainpc, interp>>

\* lines 212-219: a member's value has been read; assign it and test capture
AssignField(f, v) ==
        [f EXCEPT !.vals = DictSet(f.vals, f.fnames[f.i], IF IsList(v) THEN None ELSE v),
                  !.skip = IF IsList(v) THEN ListLen(v) - 1 ELSE f.skip,
                  !.i = f.i + 1]
\* a capture test that does not look at the member's name
CapturesAnyName(fname, val) == Plausible(val)

\* line 218: the test that captures the target
Captures(fname, val) == fname = TARGET_FIELD /\ Plausible(val)

\* lines 253-256 / 275-278: an element's value has been read
AssignElem(f, v) ==
    [f EXCEPT !.elems = Append(f.elems, IF IsList(v) THEN None ELSE v),
              !.skip = IF IsList(v) THEN ListLen(v) - 1 ELSE f.skip,
              !.i = f.i + 1]

\* the frames below the innermost one of stk
Below(stk) == SubSeq(stk, 1, Len(stk) - 1)

\* the frames of stk up to the innermost loop: a library declaration on top
\* returns what its record() returned (line 110), and so on down to the loop
\* whose record() call read the first of the declarations
RECURSIVE Caller(_)
Caller(stk) ==
    IF stk # <<>> /\ stk[Len(stk)].k = "lib" THEN Caller(Below(stk)) ELSE stk

\* the value v is given to the loop on top of stk
DeliverTo(stk, v) ==
    IF stk = <<>>
    THEN \* run, lines 296-297
         /\ stack' = <<>>
         /\ found_xml' = found_xml
         /\ pc' = IF v.k = "END" \/ Truthy(found_xml) THEN "returned" ELSE "decode"
    ELSE IF stk[Len(stk)].k = "class"
    THEN \* read_class_values, lines 211-219
         /\ stack' = Append(Below(stk), AssignField(stk[Len(stk)], v))
         /\ found_xml' = IF Captures(stk[Len(stk)].fnames[stk[Len(stk)].i],
                                     IF IsList(v) THEN None ELSE v)
                         THEN v ELSE found_xml
         /\ pc' = "decode"
    ELSE \* binary_array / single_array, lines 253-256, 275-278
         /\ stack' = Append(Below(stk), AssignElem(stk[Len(stk)], v))
         /\ found_xml' = found_xml
         /\ pc' = "decode"

\* record() returns v to the caller whose frames are stk
Deliver(stk, v) == DeliverTo(Caller(stk), v)

\* an exception leaves every active call and reaches the handlers of run
Raise(e) ==
    /\ stack' = <<>>
    /\ found_xml' = found_xml
    /\ pc' = "raised"
    /\ err' = e

-----------------------------------------------------------------------------
(* record() / record_of_type(rt): one action per record kind *)

\* the exception of a failed read r leaves the decoder
Throw(r) ==
    /\ Raise(r.e)
    /\ pos' = r.p
    /\ UNCHANGED <<data, classes, objects, libraries, procVars, mainVars>>

\* the step A of an action when the read r succeeded, r's exception otherwise
Try(r, A(_)) == IF r.e # "" THEN Throw(r) ELSE A(r)

\* the same for r the outcome of primitive(tc), called from the frame n levels
\* above the loop: the interpreter has run the call whatever its outcome
TryPrimitive(n, tc, r, A(_)) ==
    /\ interp' = Learnt(n, tc)
    /\ UNCHANGED <<paths, nth, outdir, mainpc>>
    /\ IF r.e # ""
       THEN /\ Raise(r.e)
            /\ pos' = r.p
            /\ UNCHANGED <<data, classes, objects, libraries, procVars>>
       ELSE A(r)

\* the same for r the header of a record whose reading made `calls` calls of
\* read_extra()
TryExtras(calls, r, A(_)) ==
    /\ interp' = LearntExtras(calls)
    /\ UNCHANGED <<paths, nth, outdir, mainpc>>
    /\ IF r.e # ""
       THEN /\ Raise(r.e)
            /\ pos' = r.p
            /\ UNCHANGED <<data, classes, objects, libraries, procVars>>
       ELSE A(r)

\* the step A when the read r of a run of bytes succeeded, after a header
\* that was read
TryRun(r, A(_)) ==
    IF r.e # ""
    THEN /\ Raise(r.e)
         /\ pos' = r.p
         /\ UNCHANGED <<data, classes, objects, libraries, procVars>>
    ELSE A(r)

\* record(), line 96: the tag cannot be read, for no byte is left or for the
\* call stack has no room for record() and byte()
RecordEOF ==
    /\ AtRecord /\ Tag.e # ""
    /\ Throw(Tag)

\* 0: Header
RecHeader ==
    /\ TagIs({0})
    /\ Try(Int32At(2, data, Tag.p), LAMBDA root :
         /\ Deliver(stack, HeaderVal(root.v))
         /\ pos' = ReadBytes(data, root.p, HeaderReserved).p
         /\ UNCHANGED <<data, classes, objects, libraries, err, procVars, mainVars>>)
\* a library declaration that is itself the value of the slot it is read for
RecLibraryAsValue ==
    /\ TagIs({12})
    /\ Try(Int32At(2, data, Tag.p), LAMBDA lid :
       Try(LpsAt(2, data, lid.p), LAMBDA name :
         /\ libraries' = DictSet(libraries, lid.v, name.v)
         /\ pos' = name.p
         /\ Deliver(stack, None)
         /\ UNCHANGED <<data, classes, objects, err, procVars, mainVars>>))

\* 12: BinaryLibrary, transparent: the caller's record() call is still open,
\* and so are the calls of record() and record_of_type for the declaration
RecLibrary ==
    /\ TagIs({12})
    /\ Try(Int32At(2, data, Tag.p), LAMBDA lid :
       Try(LpsAt(2, data, lid.p), LAMBDA name :
         /\ libraries' = DictSet(libraries, lid.v, name.v)
         /\ pos' = name.p
         /\ stack' = Append(stack, LibFrame)
         /\ UNCHANGED <<data, classes, objects, found_xml, pc, err,
                        procVars, mainVars>>))

\* 11: MessageEnd
RecEnd ==
    /\ TagIs({11})
    /\ Deliver(stack, END)
    /\ pos' = Tag.p
    /\ UNCHANGED <<data, classes, objects, libraries, err, procVars, mainVars>>

\* 10: ObjectNull
RecNull ==
    /\ TagIs({10})
    /\ Deliver(stack, None)
    /\ pos' = Tag.p
    /\ UNCHANGED <<data, classes, objects, libraries, err, procVars, mainVars>>

\* 13: ObjectNullMultiple256
RecNullMultiple256 ==
    /\ TagIs({13})
    /\ Try(ByteAt(2, data, Tag.p), LAMBDA n :
         /\ Deliver(stack, NoneList(n.v))
         /\ pos' = n.p
         /\ UNCHANGED <<data, classes, objects, libraries, err, procVars, mainVars>>)

\* line 126: `[None] * self.int32()` makes the whole list, 8 bytes a slot,
\* before anything looks at it.  Whether the memory for it is there depends
\* on the machine: a list of fewer slots than this (1 GiB) is taken to fit,
\* a longer one may fit or raise MemoryError.
SlotsThatFit == 134217728

\* 14: ObjectNullMultiple
RecNullMultiple ==
    /\ TagIs({14})
    /\ Try(Int32At(2, data, Tag.p), LAMBDA n :
         \/ /\ Deliver(stack, NoneList(n.v))
            /\ pos' = n.p
            /\ UNCHANGED <<data, classes, objects, libraries, err, procVars, mainVars>>
         \/ /\ n.v >= SlotsThatFit
            /\ Throw(Fail("MemoryError", n.p)))

\* 6: BinaryObjectString
RecString ==
    /\ TagIs({6})
    /\ Try(Int32At(2, data, Tag.p), LAMBDA oid :
       Try(LpsAt(2, data, oid.p), LAMBDA val :
         /\ objects' = DictSet(objects, oid.v, Str(val.v))
         /\ Deliver(stack, Str(val.v))
         /\ pos' = val.p
         /\ UNCHANGED <<data, classes, libraries, err, procVars, mainVars>>))

\* 8: MemberPrimitiveTyped
RecPrimitiveTyped ==
    /\ TagIs({8})
    /\ Try(ByteAt(2, data, Tag.p), LAMBDA tc :
       TryPrimitive(2, tc.v, PrimitiveAt(2, data, tc.p, tc.v, Cold, Cached(tc.v)), LAMBDA v :
         /\ Deliver(stack, v.v)
         /\ pos' = v.p
         /\ UNCHANGED <<data, classes, objects, libraries, err, procVars>>))

\* 9: MemberReference
RecReference ==
    /\ TagIs({9})
    /\ Try(Int32At(2, data, Tag.p), LAMBDA ref_id :
         /\ Deliver(stack, Ref(ref_id.v))
         /\ pos' = ref_id.p
         /\ UNCHANGED <<data, classes, objects, libraries, err, procVars, mainVars>>)

\* the layout class_record stores in self.classes (line 194)
Layout(h) == [cname |-> h.cname, fnames |-> h.fnames, btypes |-> h.btypes,
              extras |-> h.extras]

\* 5, 4, 3, 2: class records; class_record registers the layout and enters
\* read_class_values
RecClass ==
    /\ TagIs({2, 3, 4, 5})
    /\ TryExtras(ClassExtraCalls(data, Tag.p, Tag.v \in {4, 5}),
                 ClassHeader(data, Tag.p, Tag.v \in {4, 5}, Tag.v \in {2, 4}), LAMBDA h :
         /\ classes' = DictSet(classes, h.v.oid, Layout(h.v))
         /\ stack' = Append(stack, ClassFrame(h.v))
         /\ pos' = h.p
         /\ UNCHANGED <<data, objects, libraries, found_xml, pc, err, procVars>>)

\* a lookup that gives an unregistered id a layout of no members
LookupOrEmpty(r) ==
    IF DictHas(classes, r.v) THEN Ok(DictGet(classes, r.v), r.p)
    ELSE Ok([cname |-> <<>>, fnames |-> <<>>, btypes |-> <<>>, extras |-> <<>>], r.p)

\* self.classes.get(meta_id): the layout, or the ValueError of line 164
Lookup(r) ==
    IF DictHas(classes, r.v) THEN Ok(DictGet(classes, r.v), r.p)
    ELSE Fail("ValueError: unknown meta_id", r.p)

\* line 166: read_class_values entered from record_of_type: its frame is the
\* 3rd above the loop that asked for the record
ClassFrameById(oid, cdef) ==
    [ClassFrame([oid |-> oid, cname |-> cdef.cname, fnames |-> cdef.fnames,
                 btypes |-> cdef.btypes, extras |-> cdef.extras])
        EXCEPT !.depth = Depth + 3]

\* 1: ClassWithId; line 200 calls zip in the frame of read_class_values
RecClassWithId ==
    /\ TagIs({1})
    /\ Try(Int32At(2, data, Tag.p), LAMBDA oid :
       Try(Int32At(2, data, oid.p), LAMBDA meta_id :
       Try(Lookup(meta_id), LAMBDA cdef :
       Try(Deep(4, cdef.p, cdef), LAMBDA entered :
         /\ stack' = Append(stack, ClassFrameById(oid.v, cdef.v))
         /\ pos' = cdef.p
         /\ UNCHANGED <<data, classes, objects, libraries, found_xml, pc, err,
                        procVars, mainVars>>))))

\* lines 239-244, 263-268: the elements of a primitive array, read as one run
\* of bytes and stored under the array's object id
StoreRun(oid, run) ==
    /\ objects' = DictSet(objects, oid, Bytes(run.v))
    /\ Deliver(stack, Bytes(run.v))
    /\ pos' = run.p
    /\ UNCHANGED <<data, classes, libraries, err, procVars>>

\* lines 247-249, 269-271: enter the element loop of an object array
EnterArray(oid, total, p) ==
    /\ stack' = Append(stack, ArrayFrame(oid, total))
    /\ pos' = p
    /\ UNCHANGED <<data, classes, objects, libraries, found_xml, pc, err, procVars>>

\* 7: BinaryArray
RecBinaryArray ==
    /\ TagIs({7})
    /\ TryExtras(IF BinaryArrayTypes(data, Tag.p).e = "" THEN 1 ELSE 0,
                 BinaryArrayHeader(data, Tag.p), LAMBDA h :
         IF h.v.bt = 0
         THEN TryRun(ReadRun(data, h.p, h.v.total, SizeOrDefault(h.v.ex.tc)),
                     LAMBDA run : StoreRun(h.v.oid, run))
         ELSE EnterArray(h.v.oid, Count(h.v.total), h.p))

\* 15, 16, 17: single-dimension arrays
RecSingleArray ==
    /\ TagIs({15, 16, 17})
    /\ Try(SingleArrayHeader(data, Tag.p, Tag.v), LAMBDA h :
         /\ UNCHANGED mainVars
         /\ IF Tag.v = 15
            THEN StoreRun(h.v.oid, ReadRun(data, h.p, BigInt(h.v.length),
                                           SizeOrDefault(h.v.tc)))
            ELSE EnterArray(h.v.oid, h.v.length, h.p))

\* line 176, behind the tests of the tag against tuples of tags (lines 144,
\* 173), which are comparisons in the frame of record_of_type
RecUnknown ==
    /\ AtRecord /\ Tag.e = "" /\ Tag.v \notin 0..17
    /\ Throw(Deep(3, Tag.p, Fail("ValueError: unknown record type", Tag.p)))

-----
(* read_class_values: the member loop *)

\* lines 201-204: a slot covered by a null run
FieldSkip ==
    /\ InClass /\ Top.i <= Len(Top.fnames) /\ Top.skip > 0
    /\ stack' = Append(Pop, [Top EXCEPT !.vals = DictSet(Top.vals, Top.fnames[Top.i], None),
                                        !.skip = Top.skip - 1,
                                        !.i = Top.i + 1])
    /\ UNCHANGED <<data, pos, classes, objects, libraries, found_xml, pc, err,
                   procVars, mainVars>>

\* lines 206-207, 218-219: an inline primitive member
FieldPrimitive ==
    /\ InClass /\ Top.i <= Len(Top.fnames) /\ Top.skip <= 0 /\ Top.btypes[Top.i] = 0
    /\ TryPrimitive(0, Top.extras[Top.i].tc,
                    PrimitiveAt(0, data, pos, Top.extras[Top.i].tc, Cold,
                                Cached(Top.extras[Top.i].tc)), LAMBDA v :
         /\ stack' = Append(Pop, [Top EXCEPT !.vals = DictSet(Top.vals, Top.fnames[Top.i], v.v),
                                             !.i = Top.i + 1])
         /\ found_xml' = IF Captures(Top.fnames[Top.i], v.v) THEN v.v ELSE found_xml
         /\ pos' = v.p
         /\ UNCHANGED <<data, classes, objects, libraries, pc, err, procVars>>)

\* obj = {'__class__': cname, **vals}
RECURSIVE DictUpdate(_, _)
DictUpdate(d, items) ==
    IF items = <<>> THEN d
    ELSE DictUpdate(DictSet(d, Head(items).key, Head(items).val), Tail(items))

MakeObject(cname, vals) ==
    Dict(DictUpdate(<<[key |-> CLASS_KEY, val |-> Str(cname)]>>, vals))

\* lines 221-223: every member is assigned; register the object and return it
ClassDone ==
    /\ InClass /\ Top.i > Len(Top.fnames)
    /\ objects' = DictSet(objects, Top.oid, MakeObject(Top.cname, Top.vals))
    /\ Deliver(Pop, MakeObject(Top.cname, Top.vals))
    /\ UNCHANGED <<data, pos, classes, libraries, err, procVars, mainVars>>

-----------------------------------------------------------------------------
(* binary_array / single_array: the element loop (lines 247-258, 269-280) *)

ElemSkip ==
    /\ InArray /\ Top.i <= Top.total /\ Top.skip > 0
    /\ stack' = Append(Pop, [Top EXCEPT !.elems = Append(Top.elems, None),
                                        !.skip = Top.skip - 1,
                                        !.i = Top.i + 1])
    /\ UNCHANGED <<data, pos, classes, objects, libraries, found_xml, pc, err,
                   procVars, mainVars>>

ArrayDone ==
    /\ InArray /\ Top.i > Top.total
    /\ objects' = DictSet(objects, Top.oid, List(Top.elems))
    /\ Deliver(Pop, List(Top.elems))
    /\ UNCHANGED <<data, pos, classes, libraries, err, procVars, mainVars>>

-----------------------------------------------------------------------------
(* run(): the exception handlers, lines 298-310 *)

\* except EOFError: pass
HandleEOF ==
    /\ pc = "raised" /\ err = "EOFError"
    /\ pc' = "returned"
    /\ err' = ""
    /\ UNCHANGED <<data, pos, classes, objects, libraries, found_xml, stack,
                   procVars, mainVars>>

\* except Exception, lines 301-302: the target was captured before the error
HandleFoundReraise ==
    /\ pc = "raised" /\ err # "EOFError" /\ Truthy(found_xml)
    /\ pc' = "propagated"
    /\ UNCHANGED <<data, pos, classes, objects, libraries, found_xml, stack, err,
                   procVars, mainVars>>

HandleFound ==
    /\ pc = "raised" /\ err # "EOFError" /\ Truthy(found_xml)
    /\ pc' = "returned"
    /\ err' = ""
    /\ UNCHANGED <<data, pos, classes, objects, libraries, found_xml, stack,
                   procVars, mainVars>>

\* except Exception, lines 304-310: scan the object table, else re-raise
HandleScan ==
    /\ pc = "raised" /\ err # "EOFError" /\ ~Truthy(found_xml)
    /\ IF Plausible(ScanObjects(objects, 1))
       THEN found_xml' = ScanObjects(objects, 1) /\ pc' = "returned" /\ err' = ""
       ELSE found_xml' = found_xml /\ pc' = "propagated" /\ err' = err
    /\ UNCHANGED <<data, pos, classes, objects, libraries, stack, procVars, mainVars>>

-----------------------------------------------------------------------------
(* process(bld_path), lines 356-391 *)

NoOutput == [name |-> "", text |-> <<>>]

\* line 354 and lines 374, 384: the name of the output file in OUT_DIR, the
\* base name of the input path with the suffix put behind it, as one string
OutPath(suffix) == paths[nth].base \o suffix

\* the line separator of the platform the program runs on; it shows at the
\* first write and is the same for every later one
SepChoices == IF interp.linesep = <<>> THEN LineSeps ELSE {interp.linesep}

\* the most bytes of a text that a write which fails has put into the file
MaxKept == 2

\* with open(out, 'w', encoding='utf-8') as f: f.write(text), done: the file
\* is created or replaced and holds the bytes of the text
Written(dir, path, text, sep) == DictSet(dir, path, FileBytes(text, sep))

\* the same when f.write or the close of the file raises: open() has created
\* or emptied the file and the first k bytes have reached it
Kept(dir, path, text, sep, k) == DictSet(dir, path, SubSeq(FileBytes(text, sep), 1, k))

\* the exception of a failed open() or write leaves process, which has no
\* handler around them (lines 374-376, 384-386), and main, which has none at
\* all: no bytes reach the file when open() raises, the first k when the
\* write does
WriteFails(path, text, it) ==
    /\ output' = [name |-> path, text |-> text]
    /\ \/ outdir' = outdir /\ interp' = it
       \/ \E sep \in SepChoices, k \in 0..MaxKept :
             /\ k < Len(FileBytes(text, sep))
             /\ outdir' = Kept(outdir, path, text, sep, k)
             /\ interp' = [it EXCEPT !.linesep = sep]
    /\ pc' = "done"
    /\ mainpc' = "crashed"

\* the write succeeds and process returns
WriteDone(path, text, it) ==
    /\ output' = [name |-> path, text |-> text]
    /\ \E sep \in SepChoices :
          /\ outdir' = Written(outdir, path, text, sep)
          /\ interp' = [it EXCEPT !.linesep = sep]
    /\ pc' = "done"
    /\ mainpc' = mainpc

\* a process that takes only what run() captured
ProcessReturnedNoScan ==
    /\ pc = "returned"
    /\ xml' = found_xml
    /\ pc' = "decided"
    /\ UNCHANGED <<data, pos, classes, objects, libraries, found_xml, stack, err,
                   fallback, output, mainVars>>

\* lines 361-369: run() returned
ProcessReturned ==
    /\ pc = "returned"
    /\ xml' = IF found_xml.k # "None" THEN found_xml ELSE ScanObjects(objects, 1)
    /\ pc' = "decided"
    /\ UNCHANGED <<data, pos, classes, objects, libraries, found_xml, stack, err,
                   fallback, output, mainVars>>

\* lines 370-371: run() raised; the error is printed and xml stays None
ProcessParseError ==
    /\ pc = "propagated"
    /\ xml' = None
    /\ pc' = "decided"
    /\ UNCHANGED <<data, pos, classes, objects, libraries, found_xml, stack, err,
                   fallback, output, mainVars>>

\* lines 373-378: <base>.xml is written
ProcessWrite ==
    /\ pc = "decided" /\ Truthy(xml)
    /\ WriteDone(OutPath(".xml"), xml.s, interp)
    /\ UNCHANGED <<data, pos, classes, objects, libraries, found_xml, stack, err,
                   xml, fallback, paths, nth>>

\* lines 373-376: the open() or the write of <base>.xml raises
ProcessWriteFails ==
    /\ pc = "decided" /\ Truthy(xml)
    /\ WriteFails(OutPath(".xml"), xml.s, interp)
    /\ UNCHANGED <<data, pos, classes, objects, libraries, found_xml, stack, err,
                   xml, fallback, paths, nth>>

\* lines 380-382: nothing found by the NRBF parse; the compressed scan is invoked
ProcessFallbackAlways ==
    /\ pc = "decided"
    /\ fallback' = TRUE
    /\ pc' = "scan"
    /\ UNCHANGED <<data, pos, classes, objects, libraries, found_xml, stack, err,
                   xml, output, mainVars>>

ProcessFallback ==
    /\ pc = "decided" /\ ~Truthy(xml)
    /\ fallback' = TRUE
    /\ pc' = "scan"
    /\ UNCHANGED <<data, pos, classes, objects, libraries, found_xml, stack, err,
                   xml, output, mainVars>>

-----------------------------------------------------------------------------
(* scan_compressed(data), lines 317-340, with the parts of gzip.decompress *)
(* and zlib.decompress it relies on: the gzip and zlib framing and the     *)
(* inflation of deflate data (RFC 1951) as zlib does it, with stored       *)
(* blocks and blocks of fixed and of dynamic Huffman codes.                *)

\* 32-bit words as tuples of 32 bits, the lowest bit first
Xor(a, b) == [i \in 1..32 |-> (a[i] + b[i]) % 2]

RECURSIVE Pow2(_)
Pow2(n) == IF n = 0 THEN 1 ELSE 2 * Pow2(n - 1)

\* a byte as a word
WordOfByte(b) == [i \in 1..32 |-> IF i <= 8 THEN (b \div Pow2(i - 1)) % 2 ELSE 0]

AllOnes == [i \in 1..32 |-> 1]

\* byte k (0 the lowest) of a word
ByteOfWord(w, k) ==
    w[8 * k + 1] + 2 * w[8 * k + 2] + 4 * w[8 * k + 3] + 8 * w[8 * k + 4]
    + 16 * w[8 * k + 5] + 32 * w[8 * k + 6] + 64 * w[8 * k + 7] + 128 * w[8 * k + 8]

\* the four bytes of a word, lowest first
WordBytesLE(w) == [k \in 1..4 |-> ByteOfWord(w, k - 1)]

\* zlib.crc32: the reflected CRC-32, polynomial 0xEDB88320
CrcPoly ==
    [i \in 1..32 |->
        IF (i - 1) \in {5, 8, 9, 15, 19, 20, 21, 23, 24, 26, 27, 29, 30, 31} THEN 1 ELSE 0]

ShiftRight(c) == [i \in 1..32 |-> IF i = 32 THEN 0 ELSE c[i + 1]]

RECURSIVE CrcBits(_, _)
CrcBits(c, n) ==
    IF n = 0 THEN c
    ELSE IF c[1] = 1 THEN CrcBits(Xor(ShiftRight(c), CrcPoly), n - 1)
    ELSE CrcBits(ShiftRight(c), n - 1)

\* (the test of Len(c) has the word computed before the next byte is taken,
\* which keeps the evaluation shallow)
RECURSIVE CrcBytes(_, _, _)
CrcBytes(c, bs, i) ==
    IF i > Len(bs) \/ Len(c) # 32 THEN c
    ELSE CrcBytes(CrcBits(Xor(c, WordOfByte(bs[i])), 8), bs, i + 1)

\* the CRC-32 of bs as the 4 little-endian bytes of a gzip trailer
Crc32(bs) == WordBytesLE(Xor(CrcBytes(AllOnes, bs, 1), AllOnes))

\* zlib.adler32 as the 4 big-endian bytes of a zlib trailer
RECURSIVE AdlerSums(_, _, _, _)
AdlerSums(a, b, bs, i) ==
    IF i > Len(bs) THEN <<a, b>>
    ELSE AdlerSums((a + bs[i]) % 65521, (b + ((a + bs[i]) % 65521)) % 65521, bs, i + 1)

Adler32(bs) ==
    <<AdlerSums(1, 0, bs, 1)[2] \div 256, AdlerSums(1, 0, bs, 1)[2] % 256,
      AdlerSums(1, 0, bs, 1)[1] \div 256, AdlerSums(1, 0, bs, 1)[1] % 256>>

\* len(dec) & 0xffffffff as the 4 little-endian bytes of a gzip trailer
SizeBytes(n) == <<n % 256, (n \div 256) % 256, (n \div 65536) % 256, (n \div 16777216) % 256>>

\* the result of an inflate: the bytes produced and the offset behind the
\* deflate data, or e: "" done, "eof" the data ends early, "data" invalid data
Inflated(out, p, e) == [out |-> out, p |-> p, e |-> e]

\* bit k of bs, counted from the lowest bit of the first byte
BitAt(bs, k) == (bs[k \div 8 + 1] \div Pow2(k % 8)) % 2

\* the number in the n bits of bs from bit b on, the first bit the lowest
RECURSIVE BitsAt(_, _, _)
BitsAt(bs, b, n) == IF n = 0 THEN 0 ELSE BitAt(bs, b) + 2 * BitsAt(bs, b + 1, n - 1)

\* bs ends before the n bits from bit b on
CutAt(bs, b, n) == b + n > 8 * Len(bs)

\* the state of an inflate: the output so far, the next bit, e, and whether
\* the loop that is running has more to do
Inflating(out, b, e) == [out |-> out, b |-> b, e |-> e, more |-> FALSE]
Going(out, b) == [out |-> out, b |-> b, e |-> "", more |-> TRUE]

\* a loop of the inflate runs as long as a pass has more to do.  Every pass
\* takes at least one bit, so the passes are fewer than 2^Passes(bs), and
\* Repeated below makes them by doubling, which keeps the evaluation shallow
Passes(bs) == CHOOSE k \in 0..62 : Pow2(k) > 8 * Len(bs) /\ (k = 0 \/ Pow2(k - 1) <= 8 * Len(bs))

\* a Huffman code is given by its code lengths, lens[s + 1] that of symbol s
\* (0: the symbol has no code).  The number of symbols of length l:
CountOf(lens, l) == Cardinality({i \in 1..Len(lens) : lens[i] = l})

\* the codes of length l that the lengths up to l leave unused, below zero
\* when the lengths are over-subscribed
RECURSIVE LeftAfter(_, _)
LeftAfter(lens, l) == IF l = 0 THEN 1 ELSE 2 * LeftAfter(lens, l - 1) - CountOf(lens, l)

\* inflate_table accepts the lengths: a complete code, no code at all, or,
\* where a single code may stand alone, one code of 1 bit
CodeOk(lens, single) ==
    \/ LeftAfter(lens, 15) = 0
    \/ \A i \in 1..Len(lens) : lens[i] = 0
    \/ single /\ LeftAfter(lens, 15) > 0 /\ \A i \in 1..Len(lens) : lens[i] <= 1

\* the symbol that is k-th, from 0, of the symbols of length l
NthOfLength(lens, l, k) ==
    CHOOSE s \in 0..(Len(lens) - 1) :
        lens[s + 1] = l /\ Cardinality({t \in 1..s : lens[t] = l}) = k

\* the symbol whose code is read from bit b on, the codes being the canonical
\* ones of the lengths: `code` is the bits read so far for length l, `first`
\* the first code of length l; [v, b, e].  Bits that are no code and start
\* no longer one are an invalid code: the table of a code that is not
\* complete holds an entry for them, and the data is rejected as they are read
RECURSIVE DecodeFrom(_, _, _, _, _, _)
DecodeFrom(bs, b, lens, l, code, first) ==
    IF CutAt(bs, b, 1) THEN [v |-> 0, b |-> b, e |-> "eof"]
    ELSE IF code + BitAt(bs, b) - CountOf(lens, l) < first
         THEN [v |-> NthOfLength(lens, l, code + BitAt(bs, b) - first), b |-> b + 1, e |-> ""]
    ELSE IF \A i \in 1..Len(lens) : lens[i] <= l THEN [v |-> 0, b |-> b + 1, e |-> "data"]
    ELSE DecodeFrom(bs, b + 1, lens, l + 1, 2 * (code + BitAt(bs, b)),
                    2 * (first + CountOf(lens, l)))

\* the codes of a block of type 1: 288 literal/length symbols, of which 286
\* and 287 are no length, and 32 distance symbols, of which 30 and 31 are no
\* distance
FixedLitLen ==
    [i \in 1..288 |-> IF i <= 144 THEN 8 ELSE IF i <= 256 THEN 9 ELSE IF i <= 280 THEN 7 ELSE 8]
FixedDist == [i \in 1..32 |-> 5]

\* the match lengths of the symbols 257..285 and the distances of the
\* symbols 0..29, each the base of a range chosen by extra bits
LengthBase ==
    <<3, 4, 5, 6, 7, 8, 9, 10, 11, 13, 15, 17, 19, 23, 27, 31, 35, 43, 51, 59, 67, 83, 99,
      115, 131, 163, 195, 227, 258>>
DistBase ==
    <<1, 2, 3, 4, 5, 7, 9, 13, 17, 25, 33, 49, 65, 97, 129, 193, 257, 385, 513, 769, 1025,
      1537, 2049, 3073, 4097, 6145, 8193, 12289, 16385, 24577>>
LengthExtra(sym) == IF sym < 265 \/ sym = 285 THEN 0 ELSE (sym - 261) \div 4
DistExtra(sym) == IF sym < 4 THEN 0 ELSE (sym - 2) \div 2

\* n bytes copied from dist bytes back in the output, one after another, so
\* that a copy longer than dist repeats the last dist bytes
CopyBack(out, dist, n) ==
    out \o [i \in 1..n |-> out[Len(out) - dist + 1 + ((i - 1) % dist)]]

\* the match of length len whose distance symbol is read at bit b
Match(bs, b, out, dl, len) ==
    With(DecodeFrom(bs, b, dl, 1, 0, 0), LAMBDA d :
        IF d.e # "" THEN Inflating(out, d.b, d.e)
        ELSE IF d.v > 29 THEN Inflating(out, d.b, "data")
        ELSE IF CutAt(bs, d.b, DistExtra(d.v)) THEN Inflating(out, d.b, "eof")
        ELSE IF DistBase[d.v + 1] + BitsAt(bs, d.b, DistExtra(d.v)) > Len(out)
             THEN Inflating(out, d.b, "data")
        ELSE Inflating(CopyBack(out, DistBase[d.v + 1] + BitsAt(bs, d.b, DistExtra(d.v)), len),
                       d.b + DistExtra(d.v), ""))

\* one pass of the loop over the literals and matches of a Huffman block:
\* the symbol at bit st.b; ll and dl are the lengths of the literal/length
\* and of the distance code
CodesPass(bs, st, ll, dl) ==
    With(DecodeFrom(bs, st.b, ll, 1, 0, 0), LAMBDA s :
        IF s.e # "" THEN Inflating(st.out, s.b, s.e)
        ELSE IF s.v < 256 THEN Going(Append(st.out, s.v), s.b)
        ELSE IF s.v = 256 THEN Inflating(st.out, s.b, "")
        ELSE IF s.v > 285 THEN Inflating(st.out, s.b, "data")
        ELSE IF CutAt(bs, s.b, LengthExtra(s.v)) THEN Inflating(st.out, s.b, "eof")
        ELSE With(Match(bs, s.b + LengthExtra(s.v), st.out, dl,
                        LengthBase[s.v - 256] + BitsAt(bs, s.b, LengthExtra(s.v))),
                  LAMBDA m : IF m.e # "" THEN m ELSE Going(m.out, m.b)))

RECURSIVE CodesRepeated(_, _, _, _, _)
CodesRepeated(bs, st, ll, dl, k) ==
    IF ~st.more THEN st
    ELSE IF k = 0 THEN CodesPass(bs, st, ll, dl)
    ELSE CodesRepeated(bs, CodesRepeated(bs, st, ll, dl, k - 1), ll, dl, k - 1)

\* the literals and matches of a Huffman block up to its end-of-block symbol
Codes(bs, b, out, ll, dl) == CodesRepeated(bs, Going(out, b), ll, dl, Passes(bs))

\* the order in which a block of type 2 gives the lengths of the code that
\* encodes its code lengths
ClcOrder == <<16, 17, 18, 0, 8, 7, 9, 6, 10, 5, 11, 4, 12, 3, 13, 2, 14, 1, 15>>

\* the lengths of that code: ncode lengths of 3 bits from bit b on
ClcLens(bs, b, ncode) ==
    [s \in 1..19 |->
        LET j == CHOOSE j \in 1..19 : ClcOrder[j] = s - 1
        IN  IF j <= ncode THEN BitsAt(bs, b + 3 * (j - 1), 3) ELSE 0]

\* one pass of the loop over the code lengths of a block of type 2, read
\* with the code clc: a length, or a repeat of the length before (16) or of
\* zero (17, 18); st.out are the lengths so far, `total` of them are wanted.
\* Of a code clc of no symbol at all each bit is read as the length 0
LengthsPass(bs, st, clc, total) ==
    With(IF (\A i \in 1..Len(clc) : clc[i] = 0) /\ ~CutAt(bs, st.b, 1)
         THEN [v |-> 0, b |-> st.b + 1, e |-> ""]
         ELSE DecodeFrom(bs, st.b, clc, 1, 0, 0), LAMBDA s :
    With(IF s.v = 16 THEN 2 ELSE IF s.v = 17 THEN 3 ELSE 7, LAMBDA nbits :
    With(IF s.v = 18 THEN 11 ELSE 3, LAMBDA least :
        IF s.e # "" THEN Inflating(st.out, s.b, s.e)
        ELSE IF s.v >= 16 /\ CutAt(bs, s.b, nbits) THEN Inflating(st.out, s.b, "eof")
        ELSE IF s.v = 16 /\ st.out = <<>> THEN Inflating(st.out, s.b, "data")
        ELSE With(IF s.v < 16 THEN Append(st.out, s.v)
                  ELSE st.out \o [i \in 1..(least + BitsAt(bs, s.b, nbits)) |->
                                     IF s.v = 16 THEN st.out[Len(st.out)] ELSE 0],
                  LAMBDA lens :
                      IF Len(lens) > total THEN Inflating(st.out, s.b, "data")
                      ELSE [out |-> lens, b |-> IF s.v < 16 THEN s.b ELSE s.b + nbits,
                            e |-> "", more |-> Len(lens) < total]))))

RECURSIVE LengthsRepeated(_, _, _, _, _)
LengthsRepeated(bs, st, clc, total, k) ==
    IF ~st.more THEN st
    ELSE IF k = 0 THEN LengthsPass(bs, st, clc, total)
    ELSE LengthsRepeated(bs, LengthsRepeated(bs, st, clc, total, k - 1), clc, total, k - 1)

\* the `total` code lengths of a block of type 2 from bit b on: [v, b, e]
CodeLengths(bs, b, clc, lens, total) ==
    With(LengthsRepeated(bs, Going(lens, b), clc, total, Passes(bs)),
         LAMBDA st : [v |-> st.out, b |-> st.b, e |-> st.e])

\* a block of type 2 from the bit behind its 3 header bits: the counts, the
\* code of the code lengths, the two codes, the literals and matches
Dynamic(bs, b, out) ==
    IF CutAt(bs, b, 14) THEN Inflating(out, b, "eof")
    ELSE With(BitsAt(bs, b, 5) + 257, LAMBDA nlen :
         With(BitsAt(bs, b + 5, 5) + 1, LAMBDA ndist :
         With(BitsAt(bs, b + 10, 4) + 4, LAMBDA ncode :
             IF nlen > 286 \/ ndist > 30 THEN Inflating(out, b, "data")
             ELSE IF CutAt(bs, b + 14, 3 * ncode) THEN Inflating(out, b, "eof")
             ELSE With(ClcLens(bs, b + 14, ncode), LAMBDA clc :
                 IF ~CodeOk(clc, FALSE) THEN Inflating(out, b, "data")
                 ELSE With(CodeLengths(bs, b + 14 + 3 * ncode, clc, <<>>, nlen + ndist),
                           LAMBDA cl :
                     IF cl.e # "" THEN Inflating(out, cl.b, cl.e)
                     ELSE IF cl.v[257] = 0 THEN Inflating(out, cl.b, "data")
                     ELSE IF ~CodeOk(SubSeq(cl.v, 1, nlen), TRUE)
                             \/ ~CodeOk(SubSeq(cl.v, nlen + 1, nlen + ndist), TRUE)
                          THEN Inflating(out, cl.b, "data")
                     ELSE Codes(bs, cl.b, out, SubSeq(cl.v, 1, nlen),
                                SubSeq(cl.v, nlen + 1, nlen + ndist)))))))

\* a block of type 0 whose LEN field is at byte offset q: LEN, its
\* complement, and LEN bytes
Stored(bs, q, out) ==
    IF q + 4 > Len(bs) THEN Inflating(out, 8 * q, "eof")
    ELSE IF bs[q + 1] + bs[q + 3] # 255 \/ bs[q + 2] + bs[q + 4] # 255
         THEN Inflating(out, 8 * q, "data")
    ELSE IF q + 4 + bs[q + 1] + 256 * bs[q + 2] > Len(bs) THEN Inflating(out, 8 * q, "eof")
    ELSE Inflating(out \o SubSeq(bs, q + 5, q + 4 + bs[q + 1] + 256 * bs[q + 2]),
                   8 * (q + 4 + bs[q + 1] + 256 * bs[q + 2]), "")

\* one pass of the loop over the blocks: a bit that tells the final block, two
\* bits for the type; a stored block starts at the next byte
BlocksPass(bs, st) ==
    IF CutAt(bs, st.b, 3) THEN Inflating(st.out, st.b, "eof")
    ELSE With(CASE BitsAt(bs, st.b + 1, 2) = 0 -> Stored(bs, (st.b + 10) \div 8, st.out)
                [] BitsAt(bs, st.b + 1, 2) = 1 ->
                     Codes(bs, st.b + 3, st.out, FixedLitLen, FixedDist)
                [] BitsAt(bs, st.b + 1, 2) = 2 -> Dynamic(bs, st.b + 3, st.out)
                [] OTHER -> Inflating(st.out, st.b, "data"),
              LAMBDA r : IF r.e # "" \/ BitAt(bs, st.b) = 1 THEN r ELSE Going(r.out, r.b))

RECURSIVE BlocksRepeated(_, _, _)
BlocksRepeated(bs, st, k) ==
    IF ~st.more THEN st
    ELSE IF k = 0 THEN BlocksPass(bs, st)
    ELSE BlocksRepeated(bs, BlocksRepeated(bs, st, k - 1), k - 1)

\* raw deflate data of bs from byte offset p on, the blocks up to a final
\* one; what is left of the last byte of the data is dropped
Inflate(bs, p, out) ==
    With(BlocksRepeated(bs, Going(out, 8 * p), Passes(bs)),
         LAMBDA r : Inflated(r.out, (r.b + 7) \div 8, r.e))

\* the least element of a non-empty set of integers
Least(S) == CHOOSE x \in S : \A y \in S : x <= y

\* the offset behind the first zero byte at or after offset p, the end of bs
\* when there is none (gzip: a file name or comment field)
SkipToZero(bs, p) ==
    IF {i \in (p + 1)..Len(bs) : bs[i] = 0} = {} THEN Len(bs)
    ELSE Least({i \in (p + 1)..Len(bs) : bs[i] = 0})

\* the offset of the first non-zero byte at or after p (lstrip(b"\x00"))
SkipZeros(bs, p) ==
    IF {i \in (p + 1)..Len(bs) : bs[i] # 0} = {} THEN Len(bs)
    ELSE Least({i \in (p + 1)..Len(bs) : bs[i] # 0}) - 1

\* a step of gzip's header reader: the offset reached, or the error
Hdr(p, e) == [p |-> p, e |-> e]

\* _read_exact(fp, n) from a header position
HdrSkip(bs, h, n) ==
    IF h.e # "" THEN h
    ELSE IF h.p + n > Len(bs) THEN Hdr(Len(bs), "eof") ELSE Hdr(h.p + n, "")

\* FEXTRA: a 2-byte length and that many bytes
HdrExtra(bs, h) ==
    IF h.e # "" THEN h
    ELSE IF h.p + 2 > Len(bs) THEN Hdr(Len(bs), "eof")
    ELSE HdrSkip(bs, Hdr(h.p + 2, ""), bs[h.p + 1] + 256 * bs[h.p + 2])

\* FNAME, FCOMMENT: bytes up to a zero byte or the end of the data
HdrString(bs, h) == IF h.e # "" THEN h ELSE Hdr(SkipToZero(bs, h.p), "")

HasFlag(flag, bit) == (flag \div bit) % 2 = 1

\* the optional fields of a gzip header, by the bits of its flag byte
HdrExtraIf(bs, h, flag) == IF HasFlag(flag, 4) THEN HdrExtra(bs, h) ELSE h
HdrNameIf(bs, h, flag) == IF HasFlag(flag, 8) THEN HdrString(bs, h) ELSE h
HdrCommentIf(bs, h, flag) == IF HasFlag(flag, 16) THEN HdrString(bs, h) ELSE h
HdrCrcIf(bs, h, flag) == IF HasFlag(flag, 2) THEN HdrSkip(bs, h, 2) ELSE h

\* gzip._read_gzip_header on bs from offset p: "none" when no byte is left,
\* "bad" for a wrong magic or method, "eof" for a header cut short
GzipHeader(bs, p) ==
    IF p >= Len(bs) THEN Hdr(p, "none")
    ELSE IF p + 2 > Len(bs) \/ bs[p + 1] # 31 \/ bs[p + 2] # 139 THEN Hdr(p, "bad")
    ELSE IF p + 10 > Len(bs) THEN Hdr(Len(bs), "eof")
    ELSE IF bs[p + 3] # 8 THEN Hdr(p + 10, "bad")
    ELSE HdrCrcIf(bs,
           HdrCommentIf(bs,
             HdrNameIf(bs,
               HdrExtraIf(bs, Hdr(p + 10, ""), bs[p + 4]), bs[p + 4]), bs[p + 4]), bs[p + 4])

\* the outcome of a decompress call: the bytes, or ok = FALSE for an exception
Dec(out) == [ok |-> TRUE, out |-> out]
DecFail == [ok |-> FALSE, out |-> <<>>]

\* the 8-byte trailer behind the deflate data inf of a member: CRC-32 and size
TrailerOk(bs, inf) ==
    /\ inf.p + 8 <= Len(bs)
    /\ SubSeq(bs, inf.p + 1, inf.p + 4) = Crc32(inf.out)
    /\ SubSeq(bs, inf.p + 5, inf.p + 8) = SizeBytes(Len(inf.out))

\* gzip.decompress: the members of bs from offset p on, one after another
RECURSIVE GunzipFrom(_, _, _)
GunzipMember(bs, inf, out) ==
    IF inf.e # "" \/ ~TrailerOk(bs, inf) THEN DecFail
    ELSE GunzipFrom(bs, SkipZeros(bs, inf.p + 8), out \o inf.out)

GunzipFrom(bs, p, out) ==
    With(GzipHeader(bs, p), LAMBDA h :
        IF h.e = "none" THEN Dec(out)
        ELSE IF h.e # "" THEN DecFail
        ELSE GunzipMember(bs, Inflate(bs, h.p, <<>>), out))

Gunzip(bs) == GunzipFrom(bs, 0, <<>>)

\* the zlib header: deflate, window up to 32K, check bits, no preset dictionary
ZlibHeaderOk(bs) ==
    /\ Len(bs) >= 2
    /\ bs[1] % 16 = 8 /\ bs[1] \div 16 <= 7
    /\ (256 * bs[1] + bs[2]) % 31 = 0
    /\ ~HasFlag(bs[2], 32)

ZlibBody(bs, inf) ==
    IF inf.e # "" \/ inf.p + 4 > Len(bs) THEN DecFail
    ELSE IF SubSeq(bs, inf.p + 1, inf.p + 4) # Adler32(inf.out) THEN DecFail
    ELSE Dec(inf.out)

\* zlib.decompress: one zlib stream; what follows it is ignored
Unzlib(bs) == IF ~ZlibHeaderOk(bs) THEN DecFail ELSE ZlibBody(bs, Inflate(bs, 2, <<>>))

\* b"<?xml" and b"<Title24"
XmlAnchor == <<60, 63, 120, 109, 108>>
TitleAnchor == <<60, 84, 105, 116, 108, 101, 50, 52>>

\* needle in hay, for byte strings
Contains(hay, needle) ==
    \E i \in 0..(Len(hay) - Len(needle)) : SubSeq(hay, i + 1, i + Len(needle)) = needle

HasAnchor(dec) == Contains(dec, XmlAnchor) \/ Contains(dec, TitleAnchor)

\* lines 323, 335: the call gave bytes and an anchor is in them
Accepted(dec) == dec.ok /\ HasAnchor(dec.out)

\* data[i:]
SuffixWhole(buf, i) == buf

Suffix(buf, i) == SubSeq(buf, i + 1, Len(buf))

\* lines 319-320: the offsets i of range(len(data) - 2) that hold the gzip
\* signature; gzip.decompress is called at these offsets and no others
GzipCandidates(buf) == {i \in 0..(Len(buf) - 3) : buf[i + 1] = 31 /\ buf[i + 2] = 139}
\* a gzip loop that a rejected candidate ends: only the first is tried
GzipHitsFirstTry(buf) ==
    {i \in GzipCandidates(buf) :
        /\ i = Least(GzipCandidates(buf))
        /\ Accepted(Gunzip(Suffix(buf, i)))}

\* lines 321-326: the candidates from which the data decompresses to content
\* with an anchor
GzipHits(buf) == {i \in GzipCandidates(buf) : Accepted(Gunzip(Suffix(buf, i)))}

\* lines 328-339: the offsets data.find gives for the signature 78 `flg` and
\* from which the data decompresses to content with an anchor
ZlibHits(buf, flg) ==
    {i \in 0..(Len(buf) - 2) :
        /\ buf[i + 1] = 120 /\ buf[i + 2] = flg
        /\ Accepted(Unzlib(Suffix(buf, i)))}

\* gzip.decompress reads the length of an FEXTRA field with
\* struct.unpack("<H", ...), the format of type code 14: TRUE when the header
\* of a member of bs, from offset p on, gets that far
RECURSIVE ReadsExtraLen(_, _)
ReadsExtraLen(bs, p) ==
    \/ /\ p + 12 <= Len(bs) /\ bs[p + 1] = 31 /\ bs[p + 2] = 139
       /\ bs[p + 3] = 8 /\ HasFlag(bs[p + 4], 4)
    \/ With(GzipHeader(bs, p), LAMBDA h :
          /\ h.e = ""
          /\ With(Inflate(bs, h.p, <<>>), LAMBDA inf :
                /\ inf.e = "" /\ TrailerOk(bs, inf)
                /\ ReadsExtraLen(bs, SkipZeros(bs, inf.p + 8))))

\* the interpreter after scan_compressed(buf): lines 319-326 call
\* gzip.decompress at the candidates up to the first hit
ScanLearnt(buf) ==
    With(GzipHits(buf), LAMBDA hits :
        [interp EXCEPT !.formats =
            IF \E i \in GzipCandidates(buf) :
                  /\ hits = {} \/ i <= Least(hits)
                  /\ ReadsExtraLen(Suffix(buf, i), 0)
            THEN @ \cup {14} ELSE @])

\* dec.decode('utf-8', errors='replace')
DecodedText(dec) == Str(Utf8Decode(dec.out))

\* scan_compressed(data): the first gzip hit, else the first zlib hit of the
\* signatures 78 9c, 78 01, 78 da in this order, else None
ScanCompressed(buf) ==
    With(GzipHits(buf), LAMBDA gz :
        IF gz # {} THEN DecodedText(Gunzip(Suffix(buf, Least(gz))))
        ELSE With(IF ZlibHits(buf, 156) # {} THEN 156
                  ELSE IF ZlibHits(buf, 1) # {} THEN 1 ELSE 218,
                  LAMBDA flg :
                      With(ZlibHits(buf, flg), LAMBDA zl :
                          IF zl # {} THEN DecodedText(Unzlib(Suffix(buf, Least(zl))))
                          ELSE None)))

\* lines 382-388: the scan gives text and <base>_decompressed.xml is written
ScanFound ==
    /\ pc = "scan"
    /\ With(ScanCompressed(data), LAMBDA text :
          /\ Truthy(text)
          /\ xml' = text
          /\ WriteDone(OutPath("_decompressed.xml"), text.s, ScanLearnt(data)))
    /\ UNCHANGED <<data, pos, classes, objects, libraries, found_xml, stack, err,
                   fallback, paths, nth>>

\* lines 382-386: the scan gives text and the open() or the write of
\* <base>_decompressed.xml raises
ScanFoundWriteFails ==
    /\ pc = "scan"
    /\ With(ScanCompressed(data), LAMBDA text :
          /\ Truthy(text)
          /\ xml' = text
          /\ WriteFails(OutPath("_decompressed.xml"), text.s, ScanLearnt(data)))
    /\ UNCHANGED <<data, pos, classes, objects, libraries, found_xml, stack, err,
                   fallback, paths, nth>>

\* lines 382-383, 390-391: the scan gives nothing; no file is written
ScanNone ==
    /\ pc = "scan"
    /\ With(ScanCompressed(data), LAMBDA text : ~Truthy(text) /\ xml' = text)
    /\ pc' = "done"
    /\ interp' = ScanLearnt(data)
    /\ UNCHANGED <<data, pos, classes, objects, libraries, found_xml, stack, err,
                   fallback, output, paths, nth, outdir, mainpc>>

-----------------------------------------------------------------------------
(* Input buffers.  The encoders below write the wire layout the reader     *)
(* above reads; they build the files the model is run on and model no code *)
(* of the program.                                                         *)

\* the concatenation of ss[lo..hi]
RECURSIVE CatRange(_, _, _)
CatRange(ss, lo, hi) ==
    IF lo > hi THEN <<>>
    ELSE IF lo = hi THEN ss[lo]
    ELSE CatRange(ss, lo, (lo + hi) \div 2) \o CatRange(ss, (lo + hi) \div 2 + 1, hi)

Cat(ss) == CatRange(ss, 1, Len(ss))

\* n copies of x
Rep(n, x) == [i \in 1..n |-> x]

\* little-endian two's complement, 4 bytes
EncInt32(n) ==
    LET m == IF n < 0 THEN n + 2147483647 + 1 ELSE n
    IN  <<m % 256, (m \div 256) % 256, (m \div 65536) % 256,
          (m \div 16777216) + (IF n < 0 THEN 128 ELSE 0)>>

RECURSIVE EncVarint(_)
EncVarint(n) == IF n < 128 THEN <<n>> ELSE <<128 + (n % 128)>> \o EncVarint(n \div 128)

\* str.encode('utf-8') for code points below U+10000 outside the surrogates
EncChar(cp) ==
    IF cp < 128 THEN <<cp>>
    ELSE IF cp < 2048 THEN <<192 + cp \div 64, 128 + (cp % 64)>>
    ELSE <<224 + cp \div 4096, 128 + ((cp \div 64) % 64), 128 + (cp % 64)>>

Utf8Encode(s) == Cat([i \in 1..Len(s) |-> EncChar(s[i])])

EncLps(s) == EncVarint(Len(Utf8Encode(s))) \o Utf8Encode(s)

EncHeader(root) == <<0>> \o EncInt32(root) \o EncInt32(-1) \o EncInt32(1) \o EncInt32(0)
EncLibrary(lid, name) == <<12>> \o EncInt32(lid) \o EncLps(name)
EncEnd == <<11>>
EncNull == <<10>>
EncNullRun(rt, n) == IF rt = 13 THEN <<13, n>> ELSE <<14>> \o EncInt32(n)
EncString(oid, s) == <<6>> \o EncInt32(oid) \o EncLps(s)
EncPrimInt32(n) == <<8, 8>> \o EncInt32(n)
EncRef(id) == <<9>> \o EncInt32(id)
EncClassWithId(oid, meta) == <<1>> \o EncInt32(oid) \o EncInt32(meta)

\* a member declaration: name, binary type and the bytes of its extra info
Member(name, bt, ex) == [name |-> name, bt |-> bt, ex |-> ex]
ObjMember(name) == Member(name, 2, <<>>)
StrMember(name) == Member(name, 1, <<>>)
PrimMember(name, tc) == Member(name, 0, <<tc>>)

\* the four class records up to the member values, which follow
EncClass(rt, oid, cname, ms) ==
    <<rt>> \o EncInt32(oid) \o EncLps(cname) \o EncInt32(Len(ms))
    \o Cat([i \in 1..Len(ms) |-> EncLps(ms[i].name)])
    \o (IF rt \in {4, 5}
        THEN [i \in 1..Len(ms) |-> ms[i].bt] \o Cat([i \in 1..Len(ms) |-> ms[i].ex])
        ELSE <<>>)
    \o (IF rt \in {3, 5} THEN EncInt32(7) ELSE <<>>)

\* a BinaryArray record up to its elements
EncBinaryArray(oid, atype, lengths, bt, ex) ==
    <<7>> \o EncInt32(oid) \o <<atype>> \o EncInt32(Len(lengths))
    \o Cat([i \in 1..Len(lengths) |-> EncInt32(lengths[i])])
    \o (IF atype \in {3, 4, 5} THEN Cat([i \in 1..Len(lengths) |-> EncInt32(0)]) ELSE <<>>)
    \o <<bt>> \o ex

\* a single-dimension array record up to its elements (tc only for tag 15)
EncSingleArray(rt, oid, length, tc) ==
    <<rt>> \o EncInt32(oid) \o EncInt32(length) \o (IF rt = 15 THEN <<tc>> ELSE <<>>)

\* every proper or improper prefix of a buffer
Prefixes(buf) == {SubSeq(buf, 1, n) : n \in 0..Len(buf)}

-----------------------------------------------------------------------------
(* Bounds of the input families *)

\* texts run from Threshold - 1 to Threshold + MaxPad characters
MaxPad == 2
\* members declared before and after the target member
MaxExtra == 1
\* null-run counts 0..MaxNullRun
MaxNullRun == 3
\* buffers of up to MaxShort bytes over ShortBytes
MaxShort == 2
\* per-rank lengths 0..MaxDim of primitive arrays
MaxDim == 3

-----------------------------------------------------------------------------
(* Input families *)

NameA == <<65>>
NameB == <<66>>
NameLib == <<76, 105, 98>>
\* "f0", "f1", ...
FieldName(i) == <<102, 48 + i>>

\* n characters, all ASCII c
Text(n, c) == Rep(n, c)
\* n characters, the first U+00E9 (two bytes in UTF-8), the rest ASCII c
TextWide(n, c) == <<233>> \o Rep(n - 1, c)

TextLens == (Threshold - 1)..(Threshold + MaxPad)
Texts == {Text(n, 120) : n \in TextLens}
         \cup {TextWide(n, 120) : n \in {Threshold, Threshold + 1}}
LongX == Text(Threshold + 1, 120)
LongY == Text(Threshold + 2, 121)
Short == Text(5, 122)

StreamStarts == {<<>>, EncHeader(1), EncHeader(1) \o EncLibrary(7, NameLib)}

\* A: [start][one class record: `pre` members, the target member holding an
\* inline string, `post` members][End]
CaptureStream(start, rt, pre, post, text) ==
    start
    \o EncClass(rt, 1, NameA,
                [i \in 1..pre |-> PrimMember(FieldName(i), 8)]
                \o <<StrMember(TARGET_FIELD)>>
                \o [i \in 1..post |-> ObjMember(FieldName(pre + i))])
    \o Cat([i \in 1..pre |-> IF rt \in {4, 5} THEN EncInt32(40 + i) ELSE EncPrimInt32(40 + i)])
    \o EncString(2, text)
    \o Cat([i \in 1..post |-> EncNull])
    \o EncEnd

CaptureStreams ==
    {CaptureStream(start, rt, pre, post, text) :
        start \in StreamStarts, rt \in {2, 3, 4, 5},
        pre \in 0..MaxExtra, post \in 0..MaxExtra, text \in Texts}

\* class B (object 2) with the target member alone, holding an inline string
TargetClass(oid, text) ==
    EncClass(5, oid, NameB, <<StrMember(TARGET_FIELD)>>) \o EncString(oid + 10, text)
\* another object of class 2
TargetById(oid, text) == EncClassWithId(oid, 2) \o EncString(oid + 10, text)

\* B: several objects carrying the target: nested in one record (by a class
\* record and by class-by-id), as elements of one array, twice in one class,
\* and as successive top-level records
MultiCaptureStreams ==
    UNION {
      { EncHeader(1)
        \o EncClass(5, 1, NameA, <<ObjMember(FieldName(1)), ObjMember(FieldName(2))>>)
        \o TargetClass(2, t1) \o TargetById(3, t2) \o EncEnd,
        EncSingleArray(16, 1, 2, 0) \o TargetClass(2, t1) \o TargetById(3, t2) \o EncEnd,
        EncClass(5, 1, NameA, <<StrMember(TARGET_FIELD), StrMember(TARGET_FIELD)>>)
        \o EncString(11, t1) \o EncString(12, t2) \o EncEnd,
        TargetClass(2, t1) \o TargetById(3, t2) \o EncEnd }
      : t1 \in {LongX, Short}, t2 \in {LongY, Short} }

\* a container of `cnt` object slots, up to its member values / elements
Container(kind, cnt) ==
    CASE kind = "class" -> EncClass(5, 1, NameA, [i \in 1..cnt |-> ObjMember(FieldName(i))])
      [] kind = "plain" -> EncClass(3, 1, NameA, [i \in 1..cnt |-> ObjMember(FieldName(i))])
      [] kind = "mixed" -> EncClass(5, 1, NameA,
                                    [i \in 1..cnt |-> IF i = 2 THEN PrimMember(FieldName(i), 8)
                                                      ELSE ObjMember(FieldName(i))])
      [] kind = "objects" -> EncSingleArray(16, 1, cnt, 0)
      [] kind = "strings" -> EncSingleArray(17, 1, cnt, 0)
      [] kind = "binary" -> EncBinaryArray(1, 0, <<cnt>>, 2, <<>>)
      [] OTHER -> EncBinaryArray(1, 2, <<cnt, 1>>, 2, <<>>)

ContainerKinds == {"class", "plain", "mixed", "objects", "strings", "binary", "rect"}

\* the value a stream gives slot j of a container: an inline int32 for the
\* primitive member of the "mixed" class, a string record otherwise
SlotValue(kind, j) ==
    IF kind = "mixed" /\ j = 2 THEN EncInt32(40 + j) ELSE EncString(10 + j, FieldName(j))

\* C: a container of cnt slots whose values are q strings, then a null run of
\* count n, then one value for each slot a run of n slots leaves over
NullRunStream(kind, cnt, q, rt, n) ==
    Container(kind, cnt)
    \o Cat([i \in 1..q |-> SlotValue(kind, i)])
    \o EncNullRun(rt, n)
    \o Cat([i \in 1..(IF cnt - q - n > 0 THEN cnt - q - n ELSE 0) |->
              SlotValue(kind, q + n + i)])
    \o EncEnd

NullRunStreams ==
    {NullRunStream(kind, cnt, q, rt, n) :
        kind \in ContainerKinds, cnt \in {2, MaxNullRun + 1}, q \in {0, 1},
        rt \in {13, 14}, n \in 0..MaxNullRun}

\* small records that register object id 1
IdRecords ==
    { EncString(1, NameA), EncString(1, NameB),
      EncClass(5, 1, NameA, <<ObjMember(FieldName(1))>>) \o EncNull,
      EncSingleArray(15, 1, 2, 2) \o <<1, 2>>,
      EncSingleArray(16, 1, 1, 0) \o EncNull,
      EncBinaryArray(1, 0, <<1>>, 0, <<2>>) \o <<9>> }

\* D: two records under the same object id, and under different ids
SameIdStreams ==
    {r1 \o r2 \o EncEnd : r1 \in IdRecords, r2 \in IdRecords}
    \cup {r1 \o EncString(2, NameB) \o EncEnd : r1 \in IdRecords}

\* E: a class layout registered under id 1, then a second class record under
\* id `oid2` with another layout, then a class-by-id record naming id 1 whose
\* values are written for the layout `use` (1: the first, 2: the second)
RelayoutStream(oid2, use) ==
    EncClass(5, 1, NameA, <<ObjMember(FieldName(1))>>) \o EncNull
    \o EncClass(5, oid2, NameB, <<ObjMember(FieldName(2)), PrimMember(FieldName(3), 8)>>)
    \o EncNull \o EncInt32(5)
    \o EncClassWithId(3, 1)
    \o (IF use = 1 THEN EncNull ELSE EncNull \o EncInt32(6))
    \o EncEnd

RelayoutStreams == {RelayoutStream(oid2, use) : oid2 \in {1, 2}, use \in {1, 2}}

\* F: class-by-id records naming a schema id that is or is not registered, at
\* top level, as a member value and as an array element
ByIdStreams ==
    UNION {
      { EncClass(5, 1, NameA, <<ObjMember(FieldName(1))>>) \o EncNull
        \o EncClassWithId(3, meta) \o EncNull \o EncEnd,
        EncClassWithId(3, meta) \o EncNull \o EncEnd,
        EncClass(5, 1, NameA, <<ObjMember(FieldName(1))>>)
        \o EncClassWithId(3, meta) \o EncNull \o EncEnd,
        EncString(4, NameA) \o EncSingleArray(16, 5, 1, 0)
        \o EncClassWithId(3, meta) \o EncNull \o EncEnd }
      : meta \in {1, 9} }

ShortBytes == {0, 6, 10, 11, 13, 99}

RECURSIVE SeqsUpTo(_, _)
SeqsUpTo(S, n) ==
    IF n = 0 THEN {<<>>}
    ELSE LET shorter == SeqsUpTo(S, n - 1)
         IN  shorter \cup {Append(s, x) : s \in {t \in shorter : Len(t) = n - 1}, x \in S}

\* G: buffers shorter than a header record (1 + 4 + 12 bytes)
ShortStreams ==
    SeqsUpTo(ShortBytes, MaxShort)
    \cup {b \in Prefixes(EncHeader(1)) : Len(b) < 1 + 4 + HeaderReserved}

\* H: arrays of inline primitives: a BinaryArray of kind atype with per-rank
\* lengths, elements of type code tc, and a payload `cut` bytes short of
\* total * width (cut < 0: that many bytes beyond it); then End
PrimArrayStream(atype, lengths, tc, cut) ==
    LET full == Count(Product(lengths)) * SizeOrDefault(tc)
        have == IF full - cut > 0 THEN full - cut ELSE 0
    IN  EncHeader(1) \o EncBinaryArray(1, atype, lengths, 0, <<tc>>)
        \o [i \in 1..have |-> IF i = full + 1 THEN 11 ELSE 200 + (i % 50)]

PrimArrayStreams ==
    {PrimArrayStream(atype, lengths, tc, cut) :
        atype \in {0, 1, 2, 5},
        lengths \in {<<2, 3>>} \cup {<<a>> : a \in 0..MaxDim}
                    \cup {<<a, b>> : a \in {1, MaxDim}, b \in 0..MaxDim},
        tc \in {2, 8, 6, 99},
        cut \in {-1, 0, 1}}
    \cup {EncSingleArray(15, 1, n, tc) \o Rep(n * SizeOrDefault(tc) - cut, 201) \o EncEnd :
            n \in 1..MaxDim, tc \in {2, 8}, cut \in {0, 1}}

\* R: the target member holds a back-reference; the string it names comes
\* before or after the object, and the stream ends with End, junk or nothing
RefStream(first, text, tail) ==
    LET str == EncString(5, text)
        obj == EncClass(5, 1, NameA, <<ObjMember(TARGET_FIELD)>>) \o EncRef(5)
    IN  (IF first THEN str \o obj ELSE obj \o str) \o tail

RefStreams ==
    {RefStream(first, text, tail) :
        first \in BOOLEAN, text \in {LongX, Short}, tail \in {EncEnd, <<99>>, <<>>, <<9>>}}

\* S: the target is captured and a later member of the same record fails
SalvageStreams ==
    {EncClass(5, 1, NameA, <<StrMember(TARGET_FIELD), ObjMember(FieldName(1))>>)
     \o EncString(2, text) \o tail :
        text \in {LongX, Short}, tail \in {<<99>>, <<>>, <<9, 1>>, EncClassWithId(3, 9)}}

\* T: every prefix of one well-formed file
TruncatedStreams ==
    Prefixes(CaptureStream(EncHeader(1) \o EncLibrary(7, NameLib), 5, 1, 1, LongX))

\* one final stored deflate block
EncStored(content) ==
    <<1, Len(content) % 256, Len(content) \div 256,
      255 - (Len(content) % 256), 255 - (Len(content) \div 256)>> \o content

\* a gzip member and a zlib stream (second header byte flg) of one stored block
EncGzip(content) ==
    <<31, 139, 8, 0, 0, 0, 0, 0, 0, 255>> \o EncStored(content)
    \o Crc32(content) \o SizeBytes(Len(content))

EncZlib(flg, content) == <<120, flg>> \o EncStored(content) \o Adler32(content)

\* bs with byte i (from 1) replaced by b
WithByte(bs, i, b) == [bs EXCEPT ![i] = b]

\* "<?xml v", "<Title24>", a text with no anchor, and "<?xml" followed by a
\* two-byte character and a byte that is no UTF-8
XmlDoc == XmlAnchor \o <<32, 118>>
TitleDoc == TitleAnchor \o <<62>>
PlainDoc == <<60, 63, 120, 109>>
WideDoc == XmlAnchor \o <<195, 169, 255>>

\* "<?xml version='1.0'?><a/>" and the deflate data zlib makes of it, one
\* block of fixed Huffman codes
VersionDoc ==
    <<60, 63, 120, 109, 108, 32, 118, 101, 114, 115, 105, 111, 110, 61, 39, 49, 46, 48, 39,
      63, 62, 60, 97, 47, 62>>
VersionDeflate ==
    <<179, 177, 175, 200, 205, 81, 40, 75, 45, 42, 206, 204, 207, 179, 85, 55, 212, 51, 80,
      183, 183, 179, 73, 212, 183, 3, 0>>

\* "<Title24>" with 41 letters behind it and the deflate data zlib makes of
\* it, one block of dynamic Huffman codes with matches
LettersDoc ==
    <<60, 84, 105, 116, 108, 101, 50, 52, 62, 99, 98, 97, 97, 99, 100, 98, 97, 100, 99, 100,
      100, 100, 97, 98, 97, 99, 99, 98, 97, 99, 97, 100, 99, 98, 98, 100, 100, 100, 100, 100,
      97, 100, 98, 100, 99, 100, 98, 99, 99, 99>>
LettersDeflate ==
    <<21, 137, 177, 13, 0, 33, 16, 195, 118, 66, 148, 136, 41, 88, 32, 113, 40, 144, 40, 127,
      127, 253, 225, 206, 246, 88, 231, 187, 187, 245, 137, 37, 98, 133, 36, 178, 168, 64,
      153, 157, 135, 226, 58, 6, 126>>

\* a gzip member and a zlib stream around the deflate data defl of content
GzipOf(defl, content) ==
    <<31, 139, 8, 0, 0, 0, 0, 0, 2, 255>> \o defl \o Crc32(content) \o SizeBytes(Len(content))
ZlibOf(flg, defl, content) == <<120, flg>> \o defl \o Adler32(content)

\* K: compressed data of Huffman blocks: a gzip member and a zlib stream of
\* either block, a member of a stored block before one, and a member whose
\* deflate data is damaged in its last byte
Huffman ==
    {GzipOf(VersionDeflate, VersionDoc), GzipOf(LettersDeflate, LettersDoc),
     ZlibOf(156, VersionDeflate, VersionDoc), ZlibOf(218, LettersDeflate, LettersDoc),
     EncGzip(<<97, 98>>) \o GzipOf(VersionDeflate, VersionDoc),
     GzipOf(WithByte(LettersDeflate, Len(LettersDeflate), 127), LettersDoc)}

\* the bytes before the compressed data: none, an End record, unknown tags
Leads == {<<>>, EncEnd, <<97, 98>>}

\* the values a signature byte is flipped to: one bit and all bits
Flips(b) == {IF b % 2 = 0 THEN b + 1 ELSE b - 1, 255 - b}

\* Z: leading bytes, then compressed data: a gzip member, whole or with a
\* signature byte flipped, a damaged trailer or bytes behind it; two members;
\* a zlib stream of each signature; two zlib streams
Compressed ==
    {EncGzip(c) : c \in {XmlDoc, TitleDoc, PlainDoc, WideDoc}}
    \cup {WithByte(EncGzip(XmlDoc), i, b) : i \in {1}, b \in Flips(31)}
    \cup {WithByte(EncGzip(XmlDoc), i, b) : i \in {2}, b \in Flips(139)}
    \cup {WithByte(EncGzip(XmlDoc), Len(EncGzip(XmlDoc)) - 4, 0),
          EncGzip(XmlDoc) \o <<122>>, EncGzip(XmlDoc) \o <<0>>,
          SubSeq(EncGzip(XmlDoc), 1, Len(EncGzip(XmlDoc)) - 1),
          EncGzip(PlainDoc) \o EncGzip(XmlDoc),
          EncGzip(PlainDoc) \o <<122>> \o EncGzip(TitleDoc)}
    \cup {EncZlib(flg, c) : flg \in {156, 1, 218}, c \in {XmlDoc, PlainDoc}}
    \cup {EncZlib(1, TitleDoc) \o EncZlib(156, XmlDoc),
          EncZlib(218, WideDoc) \o <<122>>,
          WithByte(EncZlib(156, XmlDoc), Len(EncZlib(156, XmlDoc)), 0),
          EncZlib(156, XmlDoc) \o EncGzip(TitleDoc)}

ScanStreams == {lead \o c : lead \in Leads, c \in Compressed \cup Huffman}

\* O: two strings, then two objects whose target members are back-references
\* (to either string or to nothing), then End, an unknown tag or nothing
ScanOrderStream(text, a, b, tail) ==
    EncString(5, text) \o EncString(6, LongY)
    \o EncClass(5, 1, NameA, <<ObjMember(TARGET_FIELD)>>) \o EncRef(a)
    \o EncClassWithId(2, 1) \o EncRef(b)
    \o tail

ScanOrderStreams ==
    {ScanOrderStream(text, a, b, tail) :
        text \in {LongX, Short}, a \in 5..7, b \in 5..7, tail \in {EncEnd, <<99>>, <<>>}}

\* U: a file cut inside its target string, which is declared with
\* Threshold + 2 characters: 1..3 of them are missing
CutTargetStream(k) ==
    SubSeq(EncHeader(1) \o EncClass(5, 1, NameA, <<StrMember(TARGET_FIELD)>>)
           \o EncString(2, LongY),
           1, Len(EncHeader(1) \o EncClass(5, 1, NameA, <<StrMember(TARGET_FIELD)>>)
                  \o EncString(2, LongY)) - k)

CutTargetStreams == {CutTargetStream(k) : k \in 1..3}

\* V: a byte that is no record tag where a record is expected: at top level
\* ("top"), as a member value of a class record or as an element of an array,
\* behind q string records and before one more string record and End
UnknownTags == {18, 99, 255}

UnknownTagStream(kind, q, tag) ==
    (IF kind = "top" THEN EncHeader(1) ELSE Container(kind, 2))
    \o Cat([i \in 1..q |-> SlotValue(kind, i)])
    \o <<tag>> \o EncString(20, Short) \o EncEnd

UnknownTagStreams ==
    {UnknownTagStream(kind, q, tag) :
        kind \in {"top", "class", "objects", "binary"}, q \in 0..1, tag \in UnknownTags}

\* P: an End marker tag where run reads a record (after a library
\* declaration), where a member's value is read, and where an array element
\* is read; a class carrying the target follows it
EndStream(place) ==
    EncHeader(1)
    \o (CASE place = "top" ->
              EncLibrary(7, NameLib) \o EncEnd
              \o EncClass(5, 1, NameA, <<StrMember(TARGET_FIELD)>>) \o EncString(2, LongX)
           [] place = "member" ->
              EncClass(5, 1, NameA, <<ObjMember(FieldName(1)), ObjMember(TARGET_FIELD)>>)
              \o EncEnd \o EncString(2, LongX)
           [] place = "element" ->
              EncSingleArray(16, 1, 1, 0) \o EncEnd
              \o EncClass(5, 2, NameA, <<StrMember(TARGET_FIELD)>>) \o EncString(3, LongX))
    \o EncEnd

EndStreams == {EndStream(place) : place \in {"top", "member", "element"}}

\* the first slot after those that a string (n = 0) or a null run of n fills
NextSlot(n) == IF n = 0 THEN 2 ELSE n + 1

\* Q: a container of three slots with a library declaration where each value
\* is read: before the first slot's value, which is a string (n = 0) or a
\* null run of count n, and before the value of every slot left after it
LibraryStream(kind, n) ==
    Container(kind, 3)
    \o EncLibrary(7, NameLib)
    \o (IF n = 0 THEN SlotValue(kind, 1) ELSE EncNullRun(13, n))
    \o Cat([i \in 1..(4 - NextSlot(n)) |->
              EncLibrary(5 + NextSlot(n) + i, NameB) \o SlotValue(kind, NextSlot(n) + i - 1)])
    \o EncEnd

LibraryStreams == {LibraryStream(kind, n) : kind \in {"class", "objects"}, n \in 0..2}

\* the members of the class of TargetValueStream: the target is the second,
\* declared as an inline string primitive in the "inline" stream
TargetMembers(val) ==
    <<ObjMember(FieldName(1)),
      IF val = "inline" THEN PrimMember(TARGET_FIELD, 18) ELSE ObjMember(TARGET_FIELD)>>

\* the values of the two members: what the target member holds is named by val
TargetValues(val) ==
    CASE val = "long" -> EncNull \o EncString(3, LongX)
      [] val = "edge" -> EncNull \o EncString(3, Text(Threshold, 120))
      [] val = "null" -> EncNull \o EncNull
      [] val = "run" -> EncNullRun(13, 2)
      [] val = "ref" -> EncString(3, LongX) \o EncRef(3)
      [] val = "object" -> EncNull \o EncClass(5, 3, NameA, <<ObjMember(FieldName(2))>>)
                           \o EncString(4, LongX)
      [] val = "bytes" -> EncNull \o EncSingleArray(15, 3, Threshold + 1, 2)
                          \o Text(Threshold + 1, 120)
      [] OTHER -> EncNull \o EncLps(LongX)

TargetKinds == {"long", "edge", "null", "run", "ref", "object", "bytes", "inline"}

\* R: an object whose target member holds a long text, a text of Threshold
\* characters, Null, a slot of a null run, a Reference (to the long text held
\* by the other member), an object (whose own member holds the long text), a
\* byte run longer than Threshold, or an inline string primitive; the object
\* is given by a class record or, after a class record of the same layout
\* whose target is short or Null, by a class-by-id record
TargetValueStream(form, val) ==
    EncHeader(1)
    \o (IF form = "byid"
        THEN EncClass(5, 1, NameB, TargetMembers(val)) \o EncNull
             \o (IF val = "inline" THEN EncLps(Short) ELSE EncNull)
             \o EncClassWithId(2, 1)
        ELSE EncClass(5, 2, NameA, TargetMembers(val)))
    \o TargetValues(val)
    \o EncEnd

TargetValueStreams ==
    {TargetValueStream(form, val) : form \in {"class", "byid"}, val \in TargetKinds}

\* bs with its last byte but k replaced by 0
Damaged(bs, k) == WithByte(bs, Len(bs) - k, 0)

\* Y: compressed data in which candidates that are rejected come before the
\* one that is accepted, or in which every candidate is rejected
RetryStream(kind) ==
    CASE kind = "behind" -> \* a member with a byte behind it, then a member
           EncGzip(PlainDoc) \o <<122>> \o EncGzip(TitleDoc)
      [] kind = "crc" -> \* a member with a damaged CRC, then a member
           Damaged(EncGzip(XmlDoc), 4) \o EncGzip(TitleDoc)
      [] kind = "plain" -> \* a zlib stream, then a member with no anchor
           EncZlib(156, XmlDoc) \o EncGzip(PlainDoc)
      [] kind = "bare" -> \* a bare zlib signature, then a stream
           <<120, 156>> \o EncZlib(156, XmlDoc)
      [] kind = "adler" -> \* a stream with a damaged checksum, then a stream
           Damaged(EncZlib(156, XmlDoc), 0) \o EncZlib(156, TitleDoc)
      [] kind = "next" -> \* a stream with no anchor, then a stream
           EncZlib(156, PlainDoc) \o EncZlib(156, XmlDoc)
      [] kind = "last" -> \* a failing member, then a stream of the third signature
           EncGzip(PlainDoc) \o <<122>> \o EncZlib(218, TitleDoc)
      [] OTHER -> \* streams and a member that decompress, none with an anchor
           EncZlib(218, PlainDoc) \o EncZlib(1, PlainDoc) \o EncGzip(PlainDoc)

RetryKinds == {"behind", "crc", "plain", "bare", "adler", "next", "last", "none"}
RetryStreams == {RetryStream(kind) : kind \in RetryKinds}

\* a class record of object id 1 with two members
TwoMembers == EncClass(5, 1, NameA, <<ObjMember(FieldName(1)), ObjMember(FieldName(2))>>)

\* S: a class record whose first member is a class-by-id record naming the
\* record's own schema id ("own"); class records whose member decoding fails
\* at the second member, by an unknown tag or by the end of the buffer, the
\* record's object id being new ("cut", "eof"), held by an earlier string
\* ("reused") or held by the string that is its first member ("inner")
RegistrationStream(kind) ==
    EncHeader(1)
    \o (CASE kind = "own" ->
              TwoMembers \o EncClassWithId(2, 1) \o EncNull \o EncNull \o EncNull \o EncEnd
          [] kind = "cut" -> TwoMembers \o EncString(2, Short) \o <<99>>
          [] kind = "eof" -> TwoMembers \o EncString(2, Short)
          [] kind = "reused" -> EncString(1, Short) \o TwoMembers \o EncNull \o <<99>>
          [] OTHER -> TwoMembers \o EncString(1, Short) \o <<99>>)

RegistrationStreams ==
    {RegistrationStream(kind) : kind \in {"own", "cut", "eof", "reused", "inner"}}

\* T: counts that are negative or name nothing to read: a primitive array
\* of length -1 ("rest") and a rectangular one of lengths -1 x 3 ("rect"),
\* whose read takes all that is left; object arrays of length -2 and of
\* lengths -1 x 3 and a class of -1 members, whose loops do not run; a null
\* run of count -1 at the first of two members; two inline members of an
\* unknown primitive type, which read nothing
DegenerateStream(kind) ==
    CASE kind = "rest" -> EncSingleArray(15, 1, -1, 2) \o <<1, 2, 3>> \o EncEnd
      [] kind = "rect" -> EncBinaryArray(1, 2, <<-1, 3>>, 0, <<8>>) \o <<1, 2>> \o EncEnd
      [] kind = "elems" -> EncSingleArray(16, 1, -2, 0) \o EncEnd
      [] kind = "cells" -> EncBinaryArray(1, 2, <<-1, 3>>, 2, <<>>) \o EncEnd
      [] kind = "members" ->
           <<5>> \o EncInt32(1) \o EncLps(NameA) \o EncInt32(-1) \o EncInt32(7) \o EncEnd
      [] kind = "run" ->
           Container("class", 2) \o EncNullRun(14, -1) \o SlotValue("class", 2) \o EncEnd
      [] OTHER ->
           EncClass(5, 1, NameA, <<PrimMember(FieldName(1), 99), PrimMember(FieldName(2), 99)>>)
           \o EncEnd

DegenerateKinds == {"rest", "rect", "elems", "cells", "members", "run", "unread"}
DegenerateStreams == {DegenerateStream(kind) : kind \in DegenerateKinds}

\* I: records nested to the limit of the call stack.  DeepPrefix(d) takes
\* the loop that asks for the next record to depth d: library declarations (2
\* levels each), then single-element object arrays (3 levels each), each the
\* element of the one before.  `top` is read by run() before the nesting
\* starts, `rec` at depth d.
DeepLibs(d) == CHOOSE n \in 0..2 : (d - RunDepth - 2 * n) % 3 = 0
DeepPrefix(d) ==
    Cat([i \in 1..DeepLibs(d) |-> EncLibrary(i, NameLib)])
    \o Cat([i \in 1..((d - RunDepth - 2 * DeepLibs(d)) \div 3) |->
               EncSingleArray(16, 5000 + i, 1, 0)])
DeepStream(top, d, rec) == top \o DeepPrefix(d) \o rec \o EncEnd

\* w typed int32 primitives: primitive() runs w times
WarmUp(w) == Cat([i \in 1..w |-> EncPrimInt32(i)])

\* typed primitives of the codes: int32, double, unknown
DeepPrimitives == {EncPrimInt32(5), <<8, 6>> \o Rep(8, 0), <<8, 99>>}

\* typed primitives of a shared format (TimeSpan) and of no format (boolean),
\* and one that is the last call before primitive() is warm
DeepPrimitiveStreams ==
    {DeepStream(WarmUp(w), d, rec) :
        w \in {0, WarmCalls}, d \in 996..998, rec \in DeepPrimitives}
    \cup {DeepStream(WarmUp(WarmCalls - 1), 997, EncPrimInt32(5)),
          DeepStream(<<>>, 996, <<8, 12>> \o Rep(8, 0)),
          DeepStream(<<>>, 997, <<8, 1, 1>>)}

\* records without reads of their own and with reads of a byte or an int32
DeepRecords == {<<99>>, EncNull, EncNullRun(13, 2), EncRef(1)}

\* records that read a string, and array headers
DeeperRecords ==
    {EncString(2, Short),
     EncSingleArray(16, 9, 1, 0) \o EncNull,
     EncSingleArray(15, 9, 2, 2) \o <<1, 2>>,
     EncBinaryArray(9, 0, <<1>>, 2, <<>>) \o EncNull,
     EncBinaryArray(9, 0, <<2>>, 7, <<2>>) \o EncNull \o EncNull}

\* class records: the target in a string member; members whose types have
\* extra info (a primitive code, a system class, a class of a library)
DeepClasses ==
    {TargetClass(2, LongX),
     EncClass(5, 2, NameB, <<PrimMember(FieldName(1), 8)>>) \o EncInt32(5),
     EncClass(4, 2, NameB, <<Member(FieldName(1), 3, EncLps(NameA))>>) \o EncNull,
     EncClass(5, 2, NameB, <<Member(FieldName(1), 4, EncLps(NameA) \o EncInt32(7))>>)
     \o EncNull}

\* a class read at the top, with no member or one int32 member, and an
\* object of it by id at depth d; an object of no class read before
DeepByIdStreams ==
    {DeepStream(WarmUp(w) \o EncClass(5, 1, NameA, <<>>), d, EncClassWithId(2, 1)) :
        w \in {0}, d \in 996..998}
    \cup {DeepStream(WarmUp(w)
                     \o EncClass(5, 1, NameA, <<PrimMember(FieldName(1), 8)>>)
                     \o EncInt32(5),
                     d, EncClassWithId(2, 1) \o EncInt32(6)) :
            w \in {0, WarmCalls}, d \in 995..996}
    \cup {DeepStream(<<>>, d, EncClassWithId(2, 77)) : d \in 996..998}

\* chains of n records of one kind, each nested in the one before
ChainOf(kind, n) ==
    CASE kind = "libraries" ->
           Cat([i \in 1..n |-> EncLibrary(i, NameLib)]) \o TargetClass(2, LongX)
      [] kind = "classes" ->
           Cat([i \in 1..n |-> EncClass(5, i, NameA, <<ObjMember(FieldName(1))>>)])
           \o EncNull
      [] kind = "byid" ->
           EncClass(5, 1, NameA, <<ObjMember(FieldName(1))>>)
           \o Cat([i \in 1..n |-> EncClassWithId(i + 1, 1)]) \o EncNull
      [] OTHER ->
           Cat([i \in 1..n |-> EncBinaryArray(i, 0, <<1>>, 2, <<>>)]) \o EncNull

ChainStreams ==
    {ChainOf("libraries", n) \o EncEnd : n \in {493, 494, 497}}
    \cup {ChainOf("classes", n) \o EncEnd : n \in 248..249}
    \cup {ChainOf("byid", n) \o EncEnd : n \in 330..331}
    \cup {ChainOf("binary", n) \o EncEnd : n \in 331..332}

\* d levels of nesting and the record rec without its last `tail` bytes: the
\* data end where a read of the record begins
CutStream(d, rec, tail) == DeepPrefix(d) \o SubSeq(rec, 1, Len(rec) - tail)

\* the end of the data met at the depths where the frame of byte() is the
\* last that fits and one below: at a tag, a type code, a string, a class
\* name, the second member name, the extra info of a member or element type
CutDeepStreams ==
    {CutStream(d, EncNull, 1) : d \in 997..998}
    \cup {CutStream(d, <<8, 8>>, 1) : d \in 996..997}
    \cup {CutStream(d, EncString(2, <<>>), 1) : d \in 994..995}
    \cup {CutStream(997, EncString(2, <<>>), 2)}
    \cup {CutStream(d, EncSingleArray(15, 9, 2, 8), 1) : d \in 995..996}
    \cup {CutStream(d, EncBinaryArray(9, 0, <<1>>, 2, <<>>), 1) : d \in 995..996}
    \cup {CutStream(d, EncBinaryArray(9, 0, <<1>>, 7, <<8>>), 1) : d \in 994..995}
    \cup {CutStream(d, EncBinaryArray(9, 0, <<1>>, 3, <<0>>), 1) : d \in 992..993}
    \cup {CutStream(d, EncClass(2, 2, <<>>, <<>>), 5) : d \in 993..994}
    \cup {CutStream(d, EncClass(2, 2, NameB, <<ObjMember(FieldName(1)),
                                               ObjMember(<<>>)>>), 1) : d \in 992..993}
    \cup {CutStream(d, EncClass(4, 2, NameB, <<Member(FieldName(1), 4, <<0>>)>>), 1) :
             d \in 991..992}

DeepStreams ==
    DeepPrimitiveStreams \cup CutDeepStreams
    \cup {DeepStream(<<>>, d, rec) : d \in 997..999, rec \in DeepRecords}
    \cup {DeepStream(<<>>, d, rec) : d \in 995..997, rec \in DeeperRecords}
    \cup {DeepStream(<<>>, d, rec) : d \in 992..994, rec \in DeepClasses}
    \cup DeepByIdStreams \cup ChainStreams

\* J: a null run of more slots than a list may have memory for, at the top
\* and as the value of a member, before a class carrying the target
HugeRunStreams ==
    {EncNullRun(14, n) \o TargetClass(2, LongX) \o EncEnd :
        n \in {SlotsThatFit - 1, SlotsThatFit, 2147483647}}
    \cup {EncClass(5, 1, NameA, <<ObjMember(FieldName(1))>>)
          \o EncNullRun(14, 2147483647) \o TargetClass(2, LongX) \o EncEnd}

\* L: arrays whose lengths are negative or have a product beyond an int32 or
\* an int64: of inline primitives of 1, 2 and 8 bytes with three bytes behind
\* the header, of single dimension, and of records
HugeLengths ==
    {<<MaxInt32, MaxInt32>>, <<-MaxInt32 - 1, -MaxInt32 - 1>>,
     <<-MaxInt32 - 1, -MaxInt32 - 1, -1>>, <<-MaxInt32 - 1, 2>>, <<MaxInt32>>, <<-1>>,
     <<3, 0, 4>>}

HugeArrayStreams ==
    {EncHeader(1) \o EncBinaryArray(1, 0, ls, 0, <<tc>>) \o <<201, 202, 11>> :
        ls \in HugeLengths, tc \in {2, 7, 9}}
    \cup {EncSingleArray(15, 1, n, 9) \o <<201, 202, 11>> : n \in {-1, MaxInt32}}
    \cup {EncBinaryArray(1, 0, ls, 1, <<>>) \o EncNull \o EncEnd :
            ls \in {<<32768, 32768>>, <<-MaxInt32 - 1, 2>>, <<-1>>}}

\* M: an array of no dimension, which has one element, at the depths where
\* read_extra() is the last call that fits, after a class of w members, for
\* each of which read_extra() has run
ExtraWarmUp(w) ==
    IF w = 0 THEN <<>>
    ELSE EncClass(5, 4000, NameA, [i \in 1..w |-> ObjMember(FieldName(i))])
         \o EncNullRun(13, w)

DeepExtraStreams ==
    {DeepStream(ExtraWarmUp(w), d, EncBinaryArray(9, 0, <<>>, bt, <<>>) \o EncNull) :
        w \in {0, WarmCalls - 1, WarmCalls}, d \in 995..997, bt \in {1, 6}}

\* N: a text with a line feed in it, as the target and as the content of a
\* gzip member
LineText == <<60, 97, 62, 10>> \o Rep(Threshold, 120)
LineDoc == XmlDoc \o <<10, 60, 97, 47, 62>>

LineStreams == {CaptureStream(EncHeader(1), 5, 0, 0, LineText), EncGzip(LineDoc)}

Inputs ==
    HugeArrayStreams \cup DeepExtraStreams \cup LineStreams
    \cup DeepStreams \cup HugeRunStreams \cup CaptureStreams \cup MultiCaptureStreams \cup NullRunStreams \cup SameIdStreams
    \cup RelayoutStreams \cup ByIdStreams \cup ShortStreams \cup PrimArrayStreams
    \cup RefStreams \cup SalvageStreams \cup TruncatedStreams \cup ScanStreams
    \cup ScanOrderStreams \cup CutTargetStreams \cup UnknownTagStreams
    \cup EndStreams \cup LibraryStreams \cup TargetValueStreams \cup RetryStreams
    \cup RegistrationStreams \cup DegenerateStreams

-----------------------------------------------------------------------------
(* The specification of one file's processing *)

\* NrbfReader.__init__ and the locals of process before run()
Init ==
    /\ data \in Inputs
    /\ pos = 0
    /\ classes = <<>>
    /\ objects = <<>>
    /\ libraries = <<>>
    /\ found_xml = None
    /\ stack = <<>>
    /\ pc = "decode"
    /\ err = ""
    /\ xml = None
    /\ fallback = FALSE
    /\ output = NoOutput
    /\ paths = <<[base |-> "base", content |-> data]>>
    /\ nth = 1
    /\ outdir = <<>>
    /\ mainpc = "process"
    /\ interp = NewInterp

Next ==
    \/ RecordEOF \/ RecHeader \/ RecLibrary \/ RecEnd \/ RecNull
    \/ RecNullMultiple256 \/ RecNullMultiple \/ RecString \/ RecPrimitiveTyped
    \/ RecReference \/ RecClass \/ RecClassWithId \/ RecBinaryArray
    \/ RecSingleArray \/ RecUnknown
    \/ FieldSkip \/ FieldPrimitive \/ ClassDone
    \/ ElemSkip \/ ArrayDone
    \/ HandleEOF \/ HandleFound \/ HandleScan
    \/ ProcessReturned \/ ProcessParseError \/ ProcessWrite \/ ProcessWriteFails
    \/ ProcessFallback \/ ScanFound \/ ScanFoundWriteFails \/ ScanNone

Spec == Init /\ [][Next]_vars

-----------------------------------------------------------------------------
(* main(), lines 394-402: the files of a list of paths, one after another. *)
(* A path is its base name and the content of the file it names; two paths *)
(* of one base name are files of different directories.  The base name of  *)
(* one file may be that of another with "_decompressed" behind it.         *)

\* the content of a path that names no readable file
Missing == <<-1>>

\* the files of a batch: two with a target text, one with a gzip member only,
\* one with neither
FileX == CaptureStream(EncHeader(1), 5, 0, 0, LongX)
FileY == CaptureStream(<<>>, 5, 0, 0, LongY)
FileZ == EncGzip(XmlDoc)
FileN == <<99>>

MaxFiles == 2

PathSet ==
    {[base |-> b, content |-> c] :
        b \in {"a", "a_decompressed"}, c \in {FileX, FileY, FileZ, FileN, Missing}}

PathLists == UNION {[1..n -> PathSet] : n \in 1..MaxFiles}

InitBatch ==
    /\ paths \in PathLists
    /\ nth = 0
    /\ outdir = <<>>
    /\ mainpc = "loop"
    /\ interp = NewInterp
    /\ data = <<>> /\ pos = 0 /\ classes = <<>> /\ objects = <<>> /\ libraries = <<>>
    /\ found_xml = None /\ stack = <<>> /\ pc = "idle" /\ err = ""
    /\ xml = None /\ fallback = FALSE /\ output = NoOutput

\* line 400-401 and process, lines 351-359: the next path is taken, its file
\* is read and a reader with empty tables is made for it
MainOpen ==
    /\ mainpc = "loop" /\ nth < Len(paths)
    /\ paths[nth + 1].content # Missing
    /\ nth' = nth + 1
    /\ mainpc' = "process"
    /\ data' = paths[nth + 1].content
    /\ pos' = 0 /\ classes' = <<>> /\ objects' = <<>> /\ libraries' = <<>>
    /\ found_xml' = None /\ stack' = <<>> /\ pc' = "decode" /\ err' = ""
    /\ xml' = None /\ fallback' = FALSE /\ output' = NoOutput
    /\ UNCHANGED <<paths, outdir, interp>>

\* line 351: open() raises; the call is outside the try of process and main
\* has no handler, so the exception ends main
MainOpenFails ==
    /\ mainpc = "loop" /\ nth < Len(paths)
    /\ paths[nth + 1].content = Missing
    /\ nth' = nth + 1
    /\ mainpc' = "crashed"
    /\ UNCHANGED <<data, pos, classes, objects, libraries, found_xml, stack, pc, err,
                   procVars, paths, outdir, interp>>

\* the steps of process for the file that is open
MainProcess == mainpc = "process" /\ Next

\* process returns to the loop of main
MainReturn ==
    /\ mainpc = "process" /\ pc = "done"
    /\ mainpc' = "loop"
    /\ pc' = "idle"
    /\ UNCHANGED <<data, pos, classes, objects, libraries, found_xml, stack, err,
                   procVars, paths, nth, outdir, interp>>

\* line 402: the loop is over
MainDone ==
    /\ mainpc = "loop" /\ nth = Len(paths)
    /\ mainpc' = "done"
    /\ UNCHANGED <<data, pos, classes, objects, libraries, found_xml, stack, pc, err,
                   procVars, paths, nth, outdir, interp>>

NextBatch == MainOpen \/ MainOpenFails \/ MainProcess \/ MainReturn \/ MainDone

SpecBatch == InitBatch /\ [][NextBatch]_vars

-----------------------------------------------------------------------------
(* Properties *)

\* the processing of the file is over
Finished == pc = "done"

\* C1.  The streams of the form [optional Header][one class record with a
\* member named TARGET_FIELD whose value is an inline string S of more than
\* Threshold characters][End], each with its S.
C1Cases ==
    {[buf |-> CaptureStream(start, rt, pre, post, text), text |-> text] :
        start \in {<<>>, EncHeader(1)}, rt \in {2, 3, 4, 5},
        pre \in 0..MaxExtra, post \in 0..MaxExtra,
        text \in {t \in Texts : Len(t) > Threshold}}

\* C1: on every stream of that form, process returns exactly S, found by the
\* structured decode: no error is raised, the compressed-scan fallback is
\* never invoked, processing can end only by writing <base>.xml, and the text
\* captured and written is exactly S.
C1_ExactCapture ==
    \A c \in C1Cases :
        data = c.buf =>
            /\ ~fallback
            /\ pc \notin {"raised", "propagated", "scan"}
            /\ pc \in {"returned", "decided", "done"} => found_xml = Str(c.text)
            /\ pc = "done" => output = [name |-> "base.xml", text |-> c.text]

\* a stream of the form, with a Header and a text holding a two-byte
\* character, has been processed and its text written
C1_Witness ==
    \E c \in C1Cases :
        /\ data = c.buf /\ data[1] = 0 /\ c.text[1] = 233
        /\ pc = "done" /\ output.text = c.text

\* C2: found_xml is write-once within a session: once it holds a value, no
\* later step of the decode (a nested object, an array element, a later
\* record, a handler's scan) changes it.
C2_WriteOnce == [][found_xml.k # "None" => found_xml' = found_xml]_vars

\* the count a null-run record (ObjectNullMultiple256: one byte,
\* ObjectNullMultiple: four bytes) at the cursor carries
RunCount == IF Tag.v = 13 THEN ByteAt(2, data, Tag.p) ELSE Int32At(2, data, Tag.p)

\* the caller's record() call is about to return a null run
AtNullRun == TagIs({13, 14}) /\ RunCount.e = ""

\* the object a class of cnt members should become when its values are q
\* values, a null run of n, and the values of the members the run leaves:
\* each value names the member it was written for
Aligned(kind, cnt, q, n) ==
    Dict(<<[key |-> CLASS_KEY, val |-> Str(NameA)]>>
         \o [j \in 1..cnt |->
               [key |-> FieldName(j),
                val |-> IF j > q /\ j <= q + n THEN None
                        ELSE IF kind = "mixed" /\ j = 2 THEN IntVal(40 + j)
                        ELSE Str(FieldName(j))]])

\* a null run of count N >= 1 read at member i: member i is assigned Null,
\* N - 1 more members are left to skip, and the cursor is past the run
C3Start ==
    (InClass /\ AtNullRun /\ RunCount.v >= 1) =>
        /\ Len(stack') = Len(stack)
        /\ stack'[Len(stack)].i = Top.i + 1
        /\ stack'[Len(stack)].skip = RunCount.v - 1
        /\ DictGet(stack'[Len(stack)].vals, Top.fnames[Top.i]) = None
        /\ pos' = RunCount.p
        /\ objects' = objects

\* a member covered by the run is assigned Null and no byte is consumed
C3Skip ==
    (InClass /\ Top.i <= Len(Top.fnames) /\ Top.skip > 0) =>
        /\ Len(stack') = Len(stack)
        /\ stack'[Len(stack)].i = Top.i + 1
        /\ stack'[Len(stack)].skip = Top.skip - 1
        /\ DictGet(stack'[Len(stack)].vals, Top.fnames[Top.i]) = None
        /\ pos' = pos
        /\ objects' = objects

\* the class streams with a null run of count n >= 1, each with the object it
\* should decode to (the run starts at a member whose value is a record: in
\* the "mixed" class, whose second member is an inline primitive, at the first)
C3Cases ==
    {[buf |-> NullRunStream(c[1], c[2], c[3], c[4], c[5]),
      obj |-> Aligned(c[1], c[2], c[3], c[5])] :
        c \in {d \in {"class", "plain", "mixed"} \X {2, MaxNullRun + 1} \X {0, 1}
                       \X {13, 14} \X (1..MaxNullRun) :
                  d[1] = "mixed" => d[3] = 0}}

\* the decoded object holds, member for member, the values written for it
C3Aligned ==
    \A c \in C3Cases :
        (data = c.buf /\ DictHas(objects, 1)) => DictGet(objects, 1) = c.obj

\* C3: inside a class's member loop a null run of length N >= 1 (either
\* width) met at member i assigns Null to members i..i+N-1 (as far as the
\* class has members) with no further bytes consumed for them, and member
\* i+N, if any, is decoded from the stream as a real value: neither skipped
\* nor shifted.
C3_NullRunMembers == [][C3Start /\ C3Skip]_vars /\ []C3Aligned

\* the member slots or elements the caller's step takes for a null run: the
\* slot assigned now and the slots left to skip
SlotsTaken == (stack'[Len(stack)].i - Top.i)
              + (IF stack'[Len(stack)].skip > 0 THEN stack'[Len(stack)].skip ELSE 0)

\* C4: a null run of length N (N = 0 included) returned to read_class_values
\* or to an array element loop is consumed as exactly N member slots.
C4_ExactlyNSlots ==
    [][(AtNullRun /\ stack # <<>>) => (Len(stack') = Len(stack) /\ SlotsTaken = RunCount.v)]_vars

\* C5: an object id, once given a value in the object table, keeps that value
\* for the rest of the session: no later record replaces it.
C5_ObjectWrittenOnce ==
    [][\A i \in 1..Len(objects) : Len(objects') >= i /\ objects'[i] = objects[i]]_vars

\* C6: a class layout, once registered under a schema id, is never changed by
\* a later record of the session.
C6_LayoutImmutable ==
    [][\A i \in 1..Len(classes) : Len(classes') >= i /\ classes'[i] = classes[i]]_vars

\* the object id and the schema id of a ClassWithId record at the cursor
ById ==
    Then(Int32At(2, data, Tag.p), LAMBDA oid :
    Then(Int32At(2, data, oid.p), LAMBDA meta_id :
    Ok([oid |-> oid.v, meta |-> meta_id.v], meta_id.p)))

\* a ClassWithId record naming a schema id that no earlier record registered
AtUnregistered == TagIs({1}) /\ ById.e = "" /\ ~DictHas(classes, ById.v.meta)

\* the decode of such a record raises the error and nothing else: no member
\* loop is entered, the cursor stays behind the two ids, the tables are as
\* they were
C7Step ==
    AtUnregistered =>
        /\ pc' = "raised" /\ err' = "ValueError: unknown meta_id"
        /\ stack' = <<>>
        /\ pos' = ById.p
        /\ objects' = objects /\ classes' = classes /\ found_xml' = found_xml

\* once outside the decode loop nothing more is decoded or registered
C7After ==
    pc # "decode" => (pos' = pos /\ objects' = objects /\ classes' = classes)

\* C7: a by-id class record whose schema id is not registered fails with the
\* unknown-meta_id error; no member value is decoded and no entry is added to
\* the object table under its object id, then or later.
C7_UnregisteredSchema == [][C7Step /\ C7After]_vars

\* the error has been raised by a record nested in a decode that had already
\* registered a layout and an object
C7_Witness ==
    /\ pc = "raised" /\ err = "ValueError: unknown meta_id"
    /\ objects # <<>> /\ classes # <<>> /\ ~DictHas(objects, 3)

\* run() is over: it returned, or its error reached process
SessionEnded == pc \in {"returned", "propagated"}

\* C8: for every buffer shorter than a Header record (1 tag byte, 4-byte root
\* id, HeaderReserved bytes), whatever its bytes, the decode session ends by
\* reporting truncation: the only error raised is the end-of-input error, and
\* run() ends by raising it, not by returning as after a normal decode.
C8_ShortBufferTruncation ==
    Len(data) < 1 + 4 + HeaderReserved =>
        /\ err \in {"", "EOFError"}
        /\ SessionEnded => (pc = "propagated" /\ err = "EOFError")

-----------------------------------------------------------------------------
(* resolve(val) on a table with a self-referential entry *)

\* the table `objs` with the entry of `id` put to a back-reference to `id`
SelfReferring(objs, id) == DictSet(objs, id, Ref(id))

\* C9.  Given an object table in which the entry of an object id is a
\* back-reference to that same id (here: every table the decoder has built,
\* with one of its entries replaced by such a back-reference), resolve on a
\* Reference to that id returns the missing-value sentinel None, and so no
\* Reference.
C9_SelfRefGivesSentinel ==
    \A i \in 1..Len(objects) :
        Resolve(SelfReferring(objects, objects[i].key), Ref(objects[i].key)) = None

-----------------------------------------------------------------------------
(* Arrays of inline primitives *)

\* the header fields of a BinaryArray record at the cursor
ArrHdr == BinaryArrayHeader(data, Tag.p)

\* the product of the per-rank lengths, taken from the last rank down
RECURSIVE Volume(_)
Volume(ls) ==
    IF ls = <<>> THEN BigInt(1)
    ELSE BigTimes(Volume(SubSeq(ls, 1, Len(ls) - 1)), BigInt(ls[Len(ls)]))

\* a BinaryArray record whose element descriptor is an inline primitive
AtPrimArray == TagIs({7}) /\ ArrHdr.e = "" /\ ArrHdr.v.bt = 0

\* (L1 * ... * Lr) * w
PayloadBytes == BigTimes(Volume(ArrHdr.v.lengths), BigInt(SizeOrDefault(ArrHdr.v.ex.tc)))

\* the integer x is the number n
IsNumber(x, n) ==
    /\ \A i \in 1..(Len(x.mag) + Len(BigInt(n).mag)) :
          (IF i <= Len(x.mag) THEN x.mag[i] ELSE 0)
            = (IF i <= Len(BigInt(n).mag) THEN BigInt(n).mag[i] ELSE 0)
    /\ n # 0 => (x.neg <=> n < 0)

\* the decode of the record moves the cursor over exactly the payload, stores
\* those bytes, as they are, under the array's id, changes nothing else in the
\* object table and enters no element loop
C10Step ==
    AtPrimArray =>
        /\ IsNumber(PayloadBytes, pos' - ArrHdr.p)
        /\ objects' = DictSet(objects, ArrHdr.v.oid,
                              Bytes(SubSeq(data, ArrHdr.p + 1, pos')))
        /\ Len(stack') = Len(stack)
        /\ classes' = classes /\ found_xml' = found_xml

\* the rectangular array of rank 2, lengths [2, 3] and 4-byte elements that
\* follows a Header: 17 + 20 bytes of header fields, then the elements
C10Example ==
    (data = PrimArrayStream(2, <<2, 3>>, 8, -1) /\ DictHas(objects, 1)) =>
        /\ DictGet(objects, 1) = Bytes(SubSeq(data, 37 + 1, 37 + 24))
        /\ pos \in {37 + 24, 37 + 24 + 1}

\* C10: decoding a rectangular / jagged / single array record whose elements
\* are inline primitives of width w, with per-rank lengths L1..Lr, advances
\* the cursor by exactly (L1 * ... * Lr) * w bytes past the header fields,
\* stores those bytes as one opaque run under the array's object id, and
\* decodes no nested record and no element value (rank 2, lengths [2, 3],
\* width 4: exactly 24 bytes).
C10_PrimitiveArrayRun == [][C10Step]_vars /\ []C10Example

-----------------------------------------------------------------------------
\* C11.  The buffers of leading bytes followed by one gzip member whose
\* content holds an XML declaration, and the same buffers with one byte of
\* the member's signature flipped.
C11Valid ==
    {[buf |-> lead \o EncGzip(c), at |-> Len(lead), text |-> Utf8Decode(c)] :
        lead \in Leads, c \in {XmlDoc, WideDoc}}

C11Flipped ==
    {[buf |-> lead \o WithByte(EncGzip(XmlDoc), i, b), at |-> Len(lead)] :
        lead \in Leads, i \in {1}, b \in Flips(31)}
    \cup {[buf |-> lead \o WithByte(EncGzip(XmlDoc), i, b), at |-> Len(lead)] :
        lead \in Leads, i \in {2}, b \in Flips(139)}

\* the scan of the file was made
Scanned == pc = "done" /\ fallback

\* C11.  The scan of leading bytes followed by a valid gzip member whose
\* content holds an XML declaration gives that content (decoded as UTF-8), and
\* it is what is written; with one byte of the member's signature flipped, the
\* member's offset is no offset at which gzip decompression is tried, and the
\* scan gives nothing.
C11_GzipScan ==
    /\ \A c \in C11Valid :
         (Scanned /\ data = c.buf) =>
             /\ c.at \in GzipCandidates(data)
             /\ xml = Str(c.text)
             /\ output = [name |-> "base_decompressed.xml", text |-> c.text]
    /\ \A c \in C11Flipped :
         (Scanned /\ data = c.buf) =>
             /\ c.at \notin GzipCandidates(data)
             /\ xml = None
             /\ output = NoOutput

\* a member behind two leading bytes was found; a flipped one was scanned
C11_Witness == Scanned /\ data = <<97, 98>> \o EncGzip(XmlDoc) /\ xml = Str(XmlDoc)

C11_FlippedSeen == Scanned /\ data = <<97, 98>> \o WithByte(EncGzip(XmlDoc), 1, 30)

-----------------------------------------------------------------------------
\* process is at line 373, with the result of the structured extraction in xml
Decided == pc = "decided"

\* C12.  The scan is invoked only at the decision point of process and only
\* when the structured extraction yielded no value; when it yielded a text,
\* the next step writes that text as <base>.xml and ends the file without the
\* scan, and a file for which the scan was invoked has no <base>.xml.
C12Invoked == (fallback' # fallback) => (Decided /\ xml = None /\ fallback')

C12Skipped ==
    (Decided /\ xml # None) =>
        /\ Plausible(xml)
        /\ ~fallback /\ ~fallback'
        /\ pc' = "done"
        /\ output' = [name |-> "base.xml", text |-> xml.s]

C12_ScanOnlyOnAbsence ==
    /\ [][C12Invoked /\ C12Skipped]_vars
    /\ [](fallback => output.name # "base.xml")

\* the scan was invoked for a file whose decode raised with nothing captured
C12_Witness == pc = "scan" /\ fallback /\ xml = None /\ err # "" /\ output = NoOutput

\* a file whose structured text was written without the scan
C12_StructuredSeen == pc = "done" /\ ~fallback /\ Plausible(xml) /\ output.name = "base.xml"

-----------------------------------------------------------------------------
\* C13.  An error raised when a target value is captured ends run() normally:
\* the error is cleared, the captured value is kept as it is, process takes it
\* as the result and writes it; an error reaches the caller of run() only with
\* no value captured.
C13Handled ==
    (pc = "raised" /\ found_xml # None) =>
        (pc' = "returned" /\ err' = "" /\ found_xml' = found_xml)

C13Result == (pc = "returned" /\ found_xml # None) => xml' = found_xml

C13_Salvage ==
    /\ [][C13Handled /\ C13Result]_vars
    /\ [](pc = "propagated" => found_xml = None)
    /\ []((pc = "done" /\ found_xml # None) =>
            output = [name |-> "base.xml", text |-> found_xml.s])

\* the file whose target is captured and whose next member is an unknown tag
\* has been written
C13_Witness ==
    /\ pc = "done" /\ pos > 0
    /\ data \in SalvageStreams /\ data[Len(data)] = 99
    /\ found_xml = Str(LongX) /\ output = [name |-> "base.xml", text |-> LongX]

-----------------------------------------------------------------------------
\* the target member of the object at place j of the table, resolved
TargetOf(j) == Resolve(objects, DictGet(objects[j].val.items, TARGET_FIELD))

\* the places of the table whose object has the target member and whose
\* resolved value is a text longer than Threshold
Givers ==
    {j \in 1..Len(objects) :
        /\ IsDict(objects[j].val) /\ DictHas(objects[j].val.items, TARGET_FIELD)
        /\ Plausible(TargetOf(j))}

\* a decode error is in flight with nothing captured
ErrorNoCapture == pc = "raised" /\ found_xml = None

\* C14.  When a decode error is raised with no value captured, the next step
\* takes the resolved target of the first object of the table (in insertion
\* order) that gives a text longer than Threshold as the captured value and
\* run() returns; when no object gives one, the same error is propagated and
\* the captured value stays unset.
C14Step ==
    ErrorNoCapture =>
        /\ objects' = objects
        /\ IF Givers # {}
           THEN found_xml' = TargetOf(Least(Givers)) /\ pc' = "returned" /\ err' = ""
           ELSE found_xml' = None /\ pc' = "propagated" /\ err' = err

C14_ErrorScan == [][C14Step]_vars

-----------------------------------------------------------------------------
\* C15.  When the stream ends before an End marker (the EOFError of line 40),
\* the session ends as a success with the captured value if there is one, and
\* the truncation is propagated to the caller of run() if there is none.
C15Step ==
    (pc = "raised" /\ err = "EOFError") =>
        IF found_xml # None
        THEN pc' = "returned" /\ found_xml' = found_xml
        ELSE pc' = "propagated" /\ err' = "EOFError"

C15_TruncationReported == [][C15Step]_vars

-----------------------------------------------------------------------------
\* the object id and the declared length of the string record at the cursor
StrId == Int32At(2, data, Tag.p)
StrLen == ReadVarint(data, StrId.p)

\* a string record is at the cursor and its declared length runs past the end
\* of the buffer
AtCutString ==
    /\ TagIs({6}) /\ StrId.e = "" /\ StrLen.e = ""
    /\ StrLen.v > Len(data) - StrLen.p

\* C16.  A string whose declared length exceeds the bytes that remain gives
\* no shortened value: the step that reads it captures no target value.
C16_NoShortenedCapture == [][AtCutString => found_xml' = found_xml]_vars

-----------------------------------------------------------------------------
\* a record is expected at the cursor and its tag byte is none of 0..17
AtUnknownTag == AtRecord /\ Tag.e = "" /\ Tag.v \notin 0..17

\* the step at such a tag raises the unknown-record error and registers
\* nothing
C17Raised ==
    AtUnknownTag =>
        /\ pc' = "raised" /\ err' = "ValueError: unknown record type"
        /\ pos' = Tag.p
        /\ objects' = objects /\ classes' = classes /\ libraries' = libraries

\* once the decode loop is left, no byte is read and no table entry is added
C17Fatal ==
    pc # "decode" =>
        /\ pc' # "decode"
        /\ pos' = pos
        /\ objects' = objects /\ classes' = classes /\ libraries' = libraries

\* C17: a tag byte outside 0..17 where a record is expected, at top level or
\* nested as a member value or an array element at any depth, raises the
\* unknown-record error and registers nothing; once the decode loop is left,
\* no byte is read and no table entry is added in that session.
C17_UnknownTagFatal == [][C17Raised /\ C17Fatal]_vars

\* the unknown tag 99 as the element of the innermost of 330 nested arrays,
\* behind two library declarations: the session ended with the error of the
\* exhausted call stack, the tag read and nothing registered
C17_StackExhausted ==
    /\ data = DeepStream(<<>>, 998, <<99>>)
    /\ pc = "propagated" /\ err = "RecursionError"
    /\ pos = Len(data) - Len(EncEnd)
    /\ objects = <<>>

-----------------------------------------------------------------------------
\* the text of the structured extraction: the captured value, else the result
\* of the scan of the object table when run() returned
StructuredText ==
    IF found_xml # None THEN found_xml
    ELSE IF err = "" THEN ScanObjects(objects, 1) ELSE None

\* what process has written when it ends
C19Final ==
    pc = "done" =>
        IF StructuredText # None
        THEN output = [name |-> "base.xml", text |-> StructuredText.s]
        ELSE IF ScanCompressed(data) # None
        THEN output = [name |-> "base_decompressed.xml", text |-> ScanCompressed(data).s]
        ELSE output = NoOutput

\* the files of OUT_DIR are the file process has set out to write, if any,
\* and it holds the text, in UTF-8
C19Files ==
    IF output = NoOutput THEN outdir = <<>>
    ELSE /\ Len(outdir) = 1
         /\ outdir[1].val = Cat([i \in 1..Len(output.text) |-> Utf8Char(output.text[i])])
         /\ outdir[1].key = output.name

\* C19.  A file is written at most once, by the step that ends process; at the
\* end there is <base>.xml with exactly the structured text when the
\* structured extraction gave one, else <base>_decompressed.xml with exactly
\* the text of the scan when the scan gave one, else no file.
C19_OutputOnSuccess ==
    /\ [][(output' # output \/ outdir' # outdir) => (output = NoOutput /\ pc' = "done")]_vars
    /\ [](pc # "done" => output = NoOutput)
    /\ [](C19Final /\ C19Files)

-----------------------------------------------------------------------------
\* C18.  No file's failure halts the batch: main never stops with a readable
\* file of its list left unhandled.
C18_BatchContinues ==
    mainpc = "crashed" => \A i \in 1..Len(paths) : paths[i].content # Missing => i <= nth

-----------------------------------------------------------------------------
\* C20.  No file's processing alters what another file's processing gave: a
\* file of OUT_DIR, once written, keeps its content for the rest of the batch.
C20_NoSharedOutput ==
    [][\A i \in 1..Len(outdir) : i <= Len(outdir') /\ outdir'[i] = outdir[i]]_vars

-----------------------------------------------------------------------------
(* C21: run, lines 295-297, and MessageEnd, lines 112-114 *)

\* C21: once an End marker has been decoded the decoding loop stops, wherever
\* in the stream its tag is met: the step that decodes an End marker leaves
\* the loop of run, so that no record is decoded after it
C21_EndStopsDecoding == [][TagIs({11}) => pc' = "returned"]_vars

-----------------------------------------------------------------------------
(* C22: BinaryLibrary, lines 106-110 *)

LibId == Int32At(2, data, Tag.p)
LibName == LpsAt(2, data, LibId.p)

\* the step of a library declaration: the pair is entered in the library
\* table, the cursor is past the declaration, and the caller still waits, in
\* the same slot, for the record that follows
C22Step ==
    (TagIs({12}) /\ LibId.e = "" /\ LibName.e = "") =>
        /\ libraries' = DictSet(libraries, LibId.v, LibName.v)
        /\ pos' = LibName.p
        /\ Caller(stack') = Caller(stack)
        /\ classes' = classes
        /\ objects' = objects
        /\ found_xml' = found_xml
        /\ pc' = "decode"

\* the value of slot j of the container of LibraryStream(kind, n)
C22Slot(n, j) == IF j <= n THEN None ELSE Str(FieldName(j))

\* the streams with a declaration before each value, each with the container
\* and the library table it should decode to
C22Cases ==
    {[buf |-> LibraryStream(c[1], c[2]),
      obj |-> IF c[1] = "class" THEN Aligned("class", 3, 0, c[2])
              ELSE List([j \in 1..3 |-> C22Slot(c[2], j)]),
      libs |-> <<[key |-> 7, val |-> NameLib]>>
               \o [i \in 1..(4 - NextSlot(c[2])) |->
                     [key |-> 5 + NextSlot(c[2]) + i, val |-> NameB]]] :
        c \in {"class", "objects"} \X (0..2)}

\* each slot holds the value of the record that follows its declaration
C22Final ==
    \A c \in C22Cases :
        (data = c.buf /\ pc = "done") =>
            /\ DictGetOrNone(objects, 1) = c.obj
            /\ libraries = c.libs
            /\ err = ""

\* C22: a library declaration is transparent: it adds (library id -> name) to
\* the library table and yields the value of the record that follows it; where
\* a member's value or an array element is expected it does not occupy the
\* slot, which receives the next record's value (a null run covering the
\* slots it covers), and the schema and object tables are left unchanged by
\* the declaration itself.
C22_LibraryTransparent == [][C22Step]_vars /\ []C22Final

\* a class of three members decoded from a declaration, a null run of two,
\* another declaration and a string: the third member holds the string
C22_Witness ==
    /\ data = LibraryStream("class", 2)
    /\ pc = "done"
    /\ DictGet(objects, 1) = Aligned("class", 3, 0, 2)
    /\ DictGet(libraries, 7) = NameLib
    /\ DictGet(libraries, 9) = NameB

-----------------------------------------------------------------------------
(* C23: read_class_values, lines 199-219 *)

\* the frames of read_class_values that assign a member in this step
C23Assigning ==
    {d \in 1..Min(Len(stack), Len(stack')) :
        /\ stack[d].k = "class"
        /\ stack'[d].k = "class"
        /\ stack'[d].i = stack[d].i + 1}

\* the name of the member that frame d assigns and the value it is given
C23Name(d) == stack[d].fnames[stack[d].i]
C23Value(d) == DictGet(stack'[d].vals, C23Name(d))

\* a text strictly longer than Threshold characters
C23LongText(v) == v.k = "str" /\ Len(v.s) > Threshold

\* a decoding step sets the captured value exactly when it assigns a member
\* named as the target a long text, and then to that text
C23Step ==
    pc = "decode" =>
        /\ \A d \in C23Assigning :
              found_xml' = IF C23Name(d) = TARGET_FIELD /\ C23LongText(C23Value(d))
                           THEN C23Value(d) ELSE found_xml
        /\ C23Assigning = {} => found_xml' = found_xml

\* the streams whose target member holds each kind of value, by a class
\* record and by a class-by-id record
C23Cases ==
    {[buf |-> TargetValueStream(c[1], c[2]), val |-> c[2]] :
        c \in {"class", "byid"} \X TargetKinds}

\* only the long text and the long inline string are captured
C23Only ==
    \A c \in C23Cases :
        data = c.buf =>
            IF c.val \in {"long", "inline"}
            THEN found_xml \in {None, Str(LongX)} /\ (pc = "done" => found_xml = Str(LongX))
            ELSE found_xml = None

\* C23: inline capture happens exactly when a member has just been assigned,
\* its name equals the target's and its value is text strictly longer than 100
\* characters, for class records and class-by-id records alike; a target
\* member whose value is text of 100 characters or fewer, Null (a slot of a
\* null run included), a Reference, an object or an opaque run never sets the
\* captured value, and no member of another name ever sets it.
C23_InlineCapture == [][C23Step]_vars /\ []C23Only

\* a class-by-id object whose target member holds the long text is captured,
\* after the class record of that layout, whose target is Null, was not
C23_Witness ==
    /\ data = TargetValueStream("byid", "long")
    /\ pc = "done"
    /\ found_xml = Str(LongX)
    /\ DictGet(DictGet(objects, 1).items, TARGET_FIELD) = None
    /\ DictGet(DictGet(objects, 2).items, TARGET_FIELD) = Str(LongX)

\* a target member holding a Reference to a long text held by a member of
\* another name: nothing is captured while decoding
C23_ReferenceSeen ==
    /\ data = TargetValueStream("class", "ref")
    /\ pc = "returned"
    /\ found_xml = None
    /\ DictGet(DictGet(objects, 2).items, TARGET_FIELD) = Ref(3)
    /\ DictGet(DictGet(objects, 2).items, FieldName(1)) = Str(LongX)

-----------------------------------------------------------------------------
(* C24: scan_compressed, lines 317-340 *)

\* line 331: the offsets data.find gives for the signature 78 `flg`
ZlibCandidates(buf, flg) ==
    {i \in 0..(Len(buf) - 2) : buf[i + 1] = 120 /\ buf[i + 2] = flg}

\* the attempt dec fails, or gives content with neither anchor
Rejected(dec) == ~dec.ok \/ ~HasAnchor(dec.out)

\* every candidate offset of buf is rejected
AllRejected(buf) ==
    /\ \A i \in GzipCandidates(buf) : Rejected(Gunzip(Suffix(buf, i)))
    /\ \A flg \in {156, 1, 218} :
         \A i \in ZlibCandidates(buf, flg) : Rejected(Unzlib(Suffix(buf, i)))

\* the scan gives nothing exactly when every candidate is rejected
C24None == Scanned => (xml = None <=> AllRejected(data))

\* the text the scan of RetryStream(kind) should give, and the offset of a
\* candidate rejected before it is found
C24Want(kind) ==
    CASE kind \in {"behind", "crc", "adler", "last"} -> Str(TitleDoc)
      [] kind \in {"plain", "bare", "next"} -> Str(XmlDoc)
      [] OTHER -> None

C24First(kind) == IF kind = "plain" THEN Len(EncZlib(156, XmlDoc)) ELSE 0

\* a candidate of RetryStream(kind) is rejected and the scan goes on to the
\* candidate that gives the text
C24Retry ==
    \A kind \in RetryKinds :
        (Scanned /\ data = RetryStream(kind)) =>
            /\ \/ C24First(kind) \in GzipCandidates(data)
                  /\ Rejected(Gunzip(Suffix(data, C24First(kind))))
               \/ \E flg \in {156, 1, 218} :
                    /\ C24First(kind) \in ZlibCandidates(data, flg)
                    /\ Rejected(Unzlib(Suffix(data, C24First(kind))))
            /\ xml = C24Want(kind)
            /\ output = IF xml = None THEN NoOutput
                        ELSE [name |-> "base_decompressed.xml", text |-> xml.s]

\* the scan ends without an error of its own
C24Ends == pc = "scan" => (pc' = "done" /\ err' = err)

\* C24: in the fallback scanner a failed candidate never ends the scan: when
\* decompression at a candidate offset fails, or succeeds with a result that
\* holds neither anchor, scanning goes on with the next candidate offset (for
\* zlib, from one byte later); no exception escapes scan_compressed, and it
\* gives the not-found result only when every gzip-signature offset and every
\* offset of the three zlib prefixes has been tried and rejected.
C24_ScanGoesOn == [][C24Ends]_vars /\ [](C24None /\ C24Retry)

\* behind a bare zlib signature, whose decompression fails, the stream that
\* starts two bytes later is found
C24_Witness ==
    /\ Scanned
    /\ data = RetryStream("bare")
    /\ 0 \in ZlibCandidates(data, 156) /\ ~Unzlib(data).ok
    /\ xml = Str(XmlDoc)

\* every candidate decompresses, none with an anchor: nothing is found
C24_NoneSeen == Scanned /\ data = RetryStream("none") /\ xml = None /\ output = NoOutput

-----------------------------------------------------------------------------
(* C25: class_record, lines 178-195, and read_class_values, lines 197-223 *)

\* the header of the class record at the cursor
C25Header == ClassHeader(data, Tag.p, Tag.v \in {4, 5}, Tag.v \in {2, 4})

\* the step of a class record's header: the layout is in the schema table,
\* no member is decoded yet and the object table is as before
C25Registers ==
    (TagIs({2, 3, 4, 5}) /\ C25Header.e = "") =>
        /\ DictGet(classes', C25Header.v.oid) = Layout(C25Header.v)
        /\ stack' = Append(stack, ClassFrame(C25Header.v))
        /\ stack'[Len(stack')].i = 1 /\ stack'[Len(stack')].vals = <<>>
        /\ objects' = objects

\* a class object is entered in the object table only by the member loop of
\* its record, after the last member, and with a value for every member
C25Enters ==
    \A n \in 1..Len(objects') :
        (IsDict(objects'[n].val) /\ (n > Len(objects) \/ objects[n] # objects'[n])) =>
            /\ InClass
            /\ Top.oid = objects'[n].key
            /\ Top.i > Len(Top.fnames)
            /\ \A j \in 1..Len(Top.fnames) : DictHas(objects'[n].val.items, Top.fnames[j])

\* a failure inside the member loops leaves both tables as they are, and no
\* entry for the object id of any class record that was being decoded
C25Failed ==
    (pc = "decode" /\ pc' = "raised") =>
        /\ classes' = classes
        /\ objects' = objects
        /\ \A d \in 1..Len(stack) :
              stack[d].k = "class" => ~DictHas(objects', stack[d].oid)

\* C25: registration order within a class record: its schema is entered in
\* the schema table before any of its member values is decoded (so that a
\* class-by-id record among its own members that names this schema id
\* succeeds), and its object is entered in the object table only after all of
\* its members have been assigned; hence each class object of the object
\* table has a value for every member of its schema, and a class record whose
\* member decoding fails midway leaves its schema registered but no entry for
\* its object id.
C25_RegistrationOrder == [][C25Registers /\ C25Enters /\ C25Failed]_vars

\* a class-by-id record among the members of the class record whose schema it
\* names was decoded with that schema
C25_OwnSchemaSeen ==
    /\ data = RegistrationStream("own")
    /\ pc = "returned"
    /\ DictHas(objects, 2) /\ DictHas(objects, 1)
    /\ DictGet(DictGet(objects, 1).items, FieldName(1)) = DictGet(objects, 2)

\* a class record with a new object id failed at its second member: its
\* schema is registered, its object is not
C25_CutSeen ==
    /\ data = RegistrationStream("cut")
    /\ pc = "raised"
    /\ DictHas(classes, 1) /\ ~DictHas(objects, 1) /\ DictHas(objects, 2)

-----------------------------------------------------------------------------
(* C26: record, read_class_values, binary_array, single_array and run *)

\* the slots a member loop or an element loop has still to go through; a
\* library declaration that waits for the record behind it has none
C26Slots(f) ==
    IF f.k = "lib" THEN 0
    ELSE IF f.k = "class"
    THEN (IF f.i <= Len(f.fnames) THEN Len(f.fnames) - f.i + 1 ELSE 0)
    ELSE (IF f.i <= f.total THEN f.total - f.i + 1 ELSE 0)

\* the iterations and returns the first n loops of stk have still to make
RECURSIVE C26Work(_, _)
C26Work(stk, n) == IF n = 0 THEN 0 ELSE C26Slots(stk[n]) + 1 + C26Work(stk, n - 1)

\* the cursor is inside the buffer and a tag that is read takes one byte
C26Inside ==
    /\ pos >= 0 /\ pos <= Len(data)
    /\ (AtRecord /\ Tag.e = "") => Tag.p = pos + 1

\* the cursor never moves backward
C26Forward == pos' >= pos

\* a record decode, at any depth and at a library declaration too, consumes
\* at least one byte or fails
C26Record == (AtRecord /\ pc' # "raised") => pos' > pos

\* a step of a member or element loop consumes input or leaves less to do
C26Loop ==
    (pc = "decode" /\ pc' = "decode") =>
        \/ pos' > pos
        \/ pos' = pos /\ C26Work(stack', Len(stack')) < C26Work(stack, Len(stack))

\* the session leaves its loops by an End marker read for run (behind
\* library declarations or not), by a capture, at the end of the buffer or by
\* an error
C26Ends ==
    (pc = "decode" /\ pc' # "decode") =>
        /\ stack' = <<>>
        /\ \/ pc' = "returned" /\ err' = "" /\ Caller(stack) = <<>> /\ TagIs({11})
           \/ pc' = "returned" /\ err' = "" /\ Truthy(found_xml')
           \/ pc' = "raised" /\ err' = "EOFError"
           \/ pc' = "raised" /\ err' \notin {"", "EOFError"}

\* C26: for every finite input buffer the decode session terminates in one of
\* four ways (End marker decoded, target captured, stream exhausted, error
\* raised): the cursor never moves backward, every record decode (top-level
\* or nested, each library-declaration hop included) consumes at least one
\* byte or fails, and no member, element or null-run skip loop runs without
\* consuming input or decreasing a finite counter.  Every step that stays in
\* the decoder decreases the pair (bytes left, C26Work) in the lexicographic
\* order, and both are never negative.
C26_Terminates ==
    [][C26Forward /\ C26Record /\ C26Loop /\ C26Ends]_vars /\ []C26Inside

\* a primitive array of length -1 took the rest of the buffer, End marker
\* included, and the next tag read found the buffer exhausted
C26_Witness ==
    /\ data = DegenerateStream("rest")
    /\ pc = "raised" /\ err = "EOFError"
    /\ pos = Len(data)
    /\ DictGet(objects, 1) = Bytes(<<1, 2, 3, 11>>)

\* a null run of MaxNullRun in an object array: the skip loop has run and the
\* session ended at the End marker with all bytes consumed
C26_SkipLoopSeen ==
    /\ data = NullRunStream("objects", MaxNullRun + 1, 1, 14, MaxNullRun)
    /\ pc = "returned" /\ pos = Len(data)
    /\ DictHas(objects, 1)

-----------------------------------------------------------------------------
(* C27: process, lines 358-378 *)

\* run() has returned, at an End marker or at the end of the buffer, with no
\* value captured
NormalEndNoCapture == pc = "returned" /\ found_xml = None

\* after such an end the table is scanned: the resolved target of the first
\* object that gives a text longer than Threshold is the result
C27Step ==
    (NormalEndNoCapture /\ Givers # {}) =>
        /\ xml' = TargetOf(Least(Givers))
        /\ Plausible(xml')
        /\ ~fallback'

\* the result is written as <base>.xml and the fallback scan is not made
C27Final ==
    (pc = "done" /\ found_xml = None /\ err = "" /\ Givers # {}) =>
        /\ ~fallback
        /\ xml = TargetOf(Least(Givers))
        /\ output = [name |-> "base.xml", text |-> xml.s]

\* the streams of a string longer than Threshold before or after the object
\* whose target member refers to it, ended by an End marker or by nothing
C27Cases ==
    {RefStream(first, LongX, tail) : first \in BOOLEAN, tail \in {EncEnd, <<>>}}

\* each of them gives the string, whichever record came first
C27Referred ==
    (data \in C27Cases /\ pc = "done") =>
        /\ found_xml = None
        /\ DictGet(DictGet(objects, 1).items, TARGET_FIELD) = Ref(5)
        /\ xml = Str(LongX)
        /\ output = [name |-> "base.xml", text |-> LongX]
        /\ ~fallback

\* C27: when a session ends without inline capture and without a raised
\* error (End marker reached, or the stream ran out at a tag read), and some
\* completed object's target member holds a back-reference to a string object
\* of more than 100 characters in the object table (before or after the
\* referring object in the stream), the per-file extraction returns that
\* string through the structured path (the scan of the object table is made
\* after a normal end as well as after an error) and the fallback scanner is
\* not invoked.
C27_ScanAfterNormalEnd == [][C27Step]_vars /\ [](C27Final /\ C27Referred)

\* the string record came after the object that refers to it and the buffer
\* ended behind it: the string was written as <base>.xml
C27_Witness ==
    /\ data = RefStream(FALSE, LongX, <<>>)
    /\ pc = "done"
    /\ found_xml = None /\ err = ""
    /\ xml = Str(LongX)
    /\ output = [name |-> "base.xml", text |-> LongX]
    /\ ~fallback
====
